---- MODULE Spec2Model ----
(***************************************************************************)
(* Model of the ferry operations dashboard server: the fleet map and the   *)
(* alert log of opsState, the two ingestion adapters (the socket client    *)
(* of the ferry control system and the MQTT client), updateVesselData and  *)
(* the derivations it calls, checkForAlerts, handleEmergencyAlert and the  *)
(* periodic tasks, the dashboard clients of the WebSocket server and what  *)
(* is sent to them, and the messages the dashboards send.                  *)
(*                                                                         *)
(* JavaScript objects are functions from their keys to their values, so a  *)
(* key an object does not have is a key outside its DOMAIN; the object     *)
(* spread {...a, ...b} is Spread(a, b).  Times are whole minutes since the *)
(* start of the process (the code keeps them as ISO strings of Date, which *)
(* new Date(...) reads back unchanged); in the behaviours of the database  *)
(* and the data collector they are whole seconds.  Node runs every         *)
(* callback to completion, so each handler is one action.                  *)
(***************************************************************************)
EXTENDS Integers, Sequences, FiniteSets, TLC

VARIABLES
  fleet,          \* opsState.fleet: vesselId -> vessel object
  alerts,         \* opsState.alerts, newest first
  systemStatus,   \* opsState.systemStatus
  weatherData,    \* opsState.weatherData (its conditions)
  vesselEvents,   \* rows of the vessel_events table, oldest first
  now,            \* the clock, in minutes (in seconds in CollectSpec and QuerySpec)
  applied,        \* history: the calls of updateVesselData, in arrival order
  emitted,        \* history: the local array alerts of the last checkForAlerts
  lastUpdateSent, \* history: the data of the last vessel_update broadcast
  dashboardClients, \* the Set dashboardClients: the sockets registered
  readyState,     \* readyState of every dashboard socket accepted so far
  sent,           \* history: per dashboard socket, the messages of its send calls
  registeredAt,   \* history: per dashboard socket, Len(applied) when it connected
  requests,       \* history: the calls of handleDashboardMessage
  lastPrune,      \* history: the alert log before and after the last hourly prune
  telemetry,      \* rows of the telemetry table, in the order of their ids
  aggregates,     \* rows of the telemetry_aggregates table, in the order of their ids
  sqliteSequence, \* the last AUTOINCREMENT id given in each of the two tables
  ran,            \* the second the data collector was started at and, per
                  \* task of it, the second its callback last ran
  reply,          \* history: the last query and the value its promise resolved with
  transport       \* the upstream connections: the sockets connectToFerryControl
                  \* made, its reconnect timers, and the MQTT client

\* the dashboard clients and the histories of what they sent and were sent
hub == <<dashboardClients, readyState, sent, registeredAt, requests>>

\* the database next to vessel_events, the timers of the data collector and
\* the history of the queries
store == <<telemetry, aggregates, sqliteSequence, ran, reply>>

vars == <<fleet, alerts, systemStatus, weatherData, vesselEvents, now,
          applied, emitted, lastUpdateSent, hub, lastPrune, store, transport>>

----------------------------------------------------------------------------
(* Bounds of the model *)

\* messages the two transports deliver in one behaviour
MaxMessages == 2
\* the last minute of the clock
MaxTime == 5
\* the last minute of the clock of the behaviours that start with a full log
LogMaxTime == 1442
\* messages the dashboards send in one behaviour
MaxRequests == 2

(* Constants of the program *)

\* getOperationalState: telemetry younger than this many minutes is recent
OfflineMinutes == 5
\* checkForAlerts: the alert log is cut to this many entries
AlertCap == 100
\* the hourly task keeps non-critical alerts younger than 24 hours
PruneMinutes == 1440
\* the alerts of the log a new dashboard is sent
SnapshotAlerts == 20

----------------------------------------------------------------------------
(* JavaScript values *)

\* the value undefined, where an object is expected
Undefined == [undefined |-> TRUE]
\* the object {}
EmptyObj == [k \in {} |-> TRUE]

\* {...a, ...b}
Spread(a, b) ==
  [k \in (DOMAIN a) \cup (DOMAIN b) |-> IF k \in DOMAIN b THEN b[k] ELSE a[k]]

\* o.g for a key that holds an object, undefined when o has no such key
Group(o, g) == IF g \in DOMAIN o THEN o[g] ELSE Undefined

\* truthiness of a value that is an object or undefined
IsObj(x) == x # Undefined

\* ...x inside an object literal: undefined spreads to nothing
ObjSpread(x) == IF IsObj(x) THEN x ELSE EmptyObj

\* o.g?.k is present
HasField(o, g, k) == IsObj(Group(o, g)) /\ k \in DOMAIN Group(o, g)

\* a variant of FieldGt: >= where the code has >
FieldGe(o, g, k, n) == HasField(o, g, k) /\ o[g][k] >= n

\* o.g?.k > n and o.g?.k < n: false when the field is undefined
FieldGt(o, g, k, n) == HasField(o, g, k) /\ o[g][k] > n
FieldLt(o, g, k, n) == HasField(o, g, k) /\ o[g][k] < n

\* truthiness of a top-level string field
TruthyString(o, k) == k \in DOMAIN o /\ o[k] # ""

----------------------------------------------------------------------------
(* The vessels and the payloads of the model *)

DefaultVesselId == "island-class-001"
VesselIds == {DefaultVesselId, "v1"}

\* the nested groups updateVesselData merges field by field
NestedGroups == {"engine", "power", "navigation", "location", "safety", "systems"}

\* the fields updateVesselData derives itself
DerivedFields == {"lastSeen", "status", "operationalState"}

\* payloads of the socket transport
ExRpm     == [engine |-> [rpm |-> 1900], timestamp |-> 3]
HotEngine == [engine |-> [temperature |-> 106]]
Fire      == [safety |-> [fireAlarm |-> TRUE]]
Underway  == [operational |-> "underway"]
Heartbeat == [lastTelemetry |-> 0]
\* payloads of the MQTT transport
ExBattery == [power |-> [batterySOC |-> 10]]
Warnings  == [engine |-> [temperature |-> 96],
              power  |-> [batterySOC |-> 24],
              safety |-> [bilgeLevel |-> 41]]
Limits    == [engine |-> [rpm |-> 1800, temperature |-> 95],
              power  |-> [batterySOC |-> 25],
              safety |-> [bilgeLevel |-> 40, fireAlarm |-> FALSE],
              timestamp |-> 0]
Flooding  == [safety |-> [bilgeLevel |-> 61]]
Position  == [location |-> [latitude |-> 486569, longitude |-> -1233933]]
\* a status/systems payload: the groups nested under systems
Systems   == [systems |-> [engine |-> [rpm |-> 1200, temperature |-> 80],
                           power  |-> [batterySOC |-> 50],
                           safety |-> [bilgeLevel |-> 10]]]

WsPayloads   == {ExRpm, HotEngine, Fire, Underway, Heartbeat}
MqttPayloads == {ExBattery, Warnings, Limits, Flooding, Position}

----------------------------------------------------------------------------
(* The state after start-up *)

initializeDefaultVessel ==
  [id               |-> DefaultVesselId,
   vesselId         |-> DefaultVesselId,
   status           |-> "normal",
   lastTelemetry    |-> 0,
   lastSeen         |-> 0,
   operational      |-> "docked",
   operationalState |-> "docked",
   systems    |-> [engine |-> "idle", power |-> "hybrid", safety |-> "normal"],
   engine     |-> [rpm |-> 0, temperature |-> 75, fuelFlow |-> 0,
                   status |-> "idle", health |-> "good"],
   power      |-> [mode |-> "hybrid", batteryLevel |-> 85,
                   shoreConnection |-> FALSE, health |-> "good"],
   navigation |-> [route |-> "SWB-TSA", speed |-> 0, eta |-> "At Dock",
                   nextPort |-> "Tsawwassen"],
   location   |-> [latitude |-> 486569, longitude |-> -1233933, heading |-> 37],
   safety     |-> [status |-> "normal", bilgeLevel |-> 15,
                   fireSystem |-> "armed", lifeboats |-> "ready"],
   component  |-> "operational",
   timestamp  |-> 0]

\* opsState as the handlers see it
Ops ==
  [fleet |-> fleet, alerts |-> alerts, systemStatus |-> systemStatus,
   weatherData |-> weatherData, vesselEvents |-> vesselEvents,
   applied |-> applied, emitted |-> emitted, lastUpdateSent |-> lastUpdateSent,
   dashboardClients |-> dashboardClients, readyState |-> readyState, sent |-> sent]

\* the upstream connections before connectToFerryControl() and
\* mqttClient.connect(): ferryControlWs is null, the MQTT client has no
\* client, and no timer is armed
Unconnected ==
  [sockets |-> <<>>, timers |-> <<>>, client |-> "none", reconnectTimer |-> <<>>,
   connected |-> FALSE, crashed |-> FALSE]

\* a new database file, and a data collector none of whose callbacks has run
EmptyStore ==
  /\ telemetry = <<>>
  /\ aggregates = <<>>
  /\ sqliteSequence = [telemetry |-> 0, telemetry_aggregates |-> 0]
  /\ ran = [task \in {} |-> 0]
  /\ reply = Undefined

Init ==
  /\ fleet = [v \in {DefaultVesselId} |-> initializeDefaultVessel]
  /\ alerts = <<>>
  /\ systemStatus = [monitoring |-> TRUE, lastUpdate |-> 0, connectedVessels |-> 1,
                     totalAlerts |-> 0, criticalAlerts |-> 0]
  /\ weatherData = [conditions |-> "Partly Cloudy", windSpeed |-> 15]
  /\ vesselEvents = <<>>
  /\ now = 0
  /\ applied = <<>>
  /\ emitted = <<>>
  /\ lastUpdateSent = Undefined
  /\ dashboardClients = {}
  /\ readyState = EmptyObj
  /\ sent = EmptyObj
  /\ registeredAt = EmptyObj
  /\ requests = <<>>
  /\ lastPrune = Undefined
  /\ EmptyStore
  /\ transport = Unconnected

----------------------------------------------------------------------------
(* server: the derivations *)

determineVesselStatus(vesselData) ==
  IF HasField(vesselData, "safety", "fireAlarm") /\ vesselData.safety.fireAlarm = TRUE
    THEN "emergency"
  ELSE IF FieldGt(vesselData, "engine", "temperature", 100) THEN "warning"
  ELSE IF FieldLt(vesselData, "power", "batterySOC", 20) THEN "caution"
  ELSE IF FieldGt(vesselData, "safety", "bilgeLevel", 50) THEN "caution"
  ELSE "normal"

\* a variant of getOperationalState: the engine is looked at before the
\* explicit operational field
getOperationalStateRpmFirst(vesselData, t) ==
  IF FieldGt(vesselData, "engine", "rpm", 0) THEN "underway"
  ELSE IF TruthyString(vesselData, "operational") THEN vesselData.operational
  ELSE IF IsObj(Group(vesselData, "location")) THEN "docked"
  ELSE IF "lastTelemetry" \in DOMAIN vesselData
          /\ t - vesselData.lastTelemetry < OfflineMinutes THEN "docked"
  ELSE "offline"

\* t is new Date() at the call
getOperationalState(vesselData, t) ==
  IF TruthyString(vesselData, "operational") THEN vesselData.operational
  ELSE IF FieldGt(vesselData, "engine", "rpm", 0) THEN "underway"
  ELSE IF IsObj(Group(vesselData, "location")) THEN "docked"
  ELSE IF "lastTelemetry" \in DOMAIN vesselData
          /\ t - vesselData.lastTelemetry < OfflineMinutes THEN "docked"
  ELSE "offline"

----------------------------------------------------------------------------
(* server: broadcastToClients.  A message is the object handed to
   JSON.stringify; send is recorded per socket. *)

broadcastToClients(st, message) ==
  [st EXCEPT !.sent = [c \in DOMAIN @ |->
                         IF c \in st.dashboardClients /\ st.readyState[c] = "OPEN"
                           THEN Append(@[c], message) ELSE @[c]]]

----------------------------------------------------------------------------
(* server: the alert log *)

\* a variant of ThresholdAlert: the message is the text alone
ThresholdAlertNoReading(vesselId, kind, type, severity, text, reading, t) ==
  [id        |-> <<vesselId, kind, t>>,
   vesselId  |-> vesselId,
   type      |-> type,
   severity  |-> severity,
   message   |-> [text |-> text, reading |-> 0],
   timestamp |-> t]

\* the alert object checkForAlerts pushes; Date.now() is part of the id
ThresholdAlert(vesselId, kind, type, severity, text, reading, t) ==
  [id        |-> <<vesselId, kind, t>>,
   vesselId  |-> vesselId,
   type      |-> type,
   severity  |-> severity,
   message   |-> [text |-> text, reading |-> reading],
   timestamp |-> t]

\* the local array alerts of checkForAlerts, in the order of its pushes
NewAlerts(vesselData, t) ==
  LET vesselId == vesselData.vesselId
      temp  == IF FieldGt(vesselData, "engine", "temperature", 95)
                 THEN <<ThresholdAlert(vesselId, "engine-temp", "engine",
                          IF vesselData.engine.temperature > 105
                            THEN "critical" ELSE "warning",
                          "Engine temperature high",
                          vesselData.engine.temperature, t)>>
                 ELSE <<>>
      rpm   == IF FieldGt(vesselData, "engine", "rpm", 1800)
                 THEN <<ThresholdAlert(vesselId, "engine-rpm", "engine", "warning",
                          "Engine RPM high", vesselData.engine.rpm, t)>>
                 ELSE <<>>
      soc   == IF FieldLt(vesselData, "power", "batterySOC", 25)
                 THEN <<ThresholdAlert(vesselId, "battery-low", "power",
                          IF vesselData.power.batterySOC < 15
                            THEN "critical" ELSE "warning",
                          "Battery SOC low", vesselData.power.batterySOC, t)>>
                 ELSE <<>>
      bilge == IF FieldGt(vesselData, "safety", "bilgeLevel", 40)
                 THEN <<ThresholdAlert(vesselId, "bilge-high", "safety",
                          IF vesselData.safety.bilgeLevel > 60
                            THEN "critical" ELSE "warning",
                          "Bilge level high", vesselData.safety.bilgeLevel, t)>>
                 ELSE <<>>
      fire  == IF HasField(vesselData, "safety", "fireAlarm")
                  /\ vesselData.safety.fireAlarm = TRUE
                 THEN <<ThresholdAlert(vesselId, "fire-alarm", "emergency", "critical",
                          "FIRE ALARM ACTIVATED", vesselId, t)>>
                 ELSE <<>>
  IN temp \o rpm \o soc \o bilge \o fire

\* array.slice(0, n)
Slice(array, n) == SubSeq(array, 1, IF Len(array) < n THEN Len(array) ELSE n)

\* the array after unshift of each element of news in turn
RECURSIVE UnshiftAll(_, _)
UnshiftAll(news, array) ==
  IF news = <<>> THEN array
  ELSE UnshiftAll(Tail(news), <<Head(news)>> \o array)

\* historicalData.saveEvent through dataCollector.trackAlert
TrackAlert(alert, t) ==
  [vessel_id |-> alert.vesselId, timestamp |-> t, event_type |-> "alert",
   severity |-> alert.severity, message |-> alert.message,
   data |-> [alertId |-> alert.id, type |-> alert.type]]

\* a variant of updateAlertCounts: the critical alerts are not counted again
updateAlertCountsTotalOnly(st) ==
  [st EXCEPT !.systemStatus.totalAlerts = Len(st.alerts)]

updateAlertCounts(st) ==
  [st EXCEPT !.systemStatus =
     [@ EXCEPT !.totalAlerts = Len(st.alerts),
               !.criticalAlerts =
                  Cardinality({i \in 1..Len(st.alerts) :
                                 st.alerts[i].severity = "critical"})]]

\* broadcastToClients({type, data: item}) for each item in turn
RECURSIVE BroadcastEach(_, _, _)
BroadcastEach(st, type, items) ==
  IF items = <<>> THEN st
  ELSE BroadcastEach(broadcastToClients(st, [type |-> type, data |-> Head(items)]),
                     type, Tail(items))

\* a variant of checkForAlerts: the thresholds are evaluated over the stored
\* record of the vessel instead of the fragment
checkForAlertsOnMerged(st, vesselData, t) ==
  LET news    == NewAlerts(st.fleet[vesselData.vesselId], t)
      pushed  == UnshiftAll(news, st.alerts)
      trimmed == IF Len(pushed) > AlertCap THEN Slice(pushed, AlertCap) ELSE pushed
  IN updateAlertCounts(
       [st EXCEPT !.alerts = trimmed,
                  !.vesselEvents = @ \o [i \in 1..Len(news) |-> TrackAlert(news[i], t)],
                  !.emitted = news])

checkForAlerts(st, vesselData, t) ==
  LET news    == NewAlerts(vesselData, t)
      pushed  == UnshiftAll(news, st.alerts)
      trimmed == IF Len(pushed) > AlertCap THEN Slice(pushed, AlertCap) ELSE pushed
      told    == BroadcastEach(st, "new_alert", news)
  IN updateAlertCounts(
       [told EXCEPT !.alerts = trimmed,
                    !.vesselEvents = @ \o [i \in 1..Len(news) |-> TrackAlert(news[i], t)],
                    !.emitted = news])

\* alertData.timestamp || new Date()
handleEmergencyAlert(st, alertData, t) ==
  LET alert == [id        |-> <<"emergency", t>>,
                vesselId  |-> IF "vesselId" \in DOMAIN alertData
                                THEN alertData.vesselId ELSE "undefined",
                type      |-> "emergency",
                severity  |-> "critical",
                message   |-> [text |-> IF "message" \in DOMAIN alertData
                                          THEN alertData.message
                                          ELSE "Emergency situation detected"],
                timestamp |-> IF "timestamp" \in DOMAIN alertData
                                THEN alertData.timestamp ELSE t,
                emergencyType |-> IF "type" \in DOMAIN alertData
                                    THEN alertData.type ELSE "undefined"]
  IN broadcastToClients(updateAlertCounts([st EXCEPT !.alerts = <<alert>> \o @]),
                        [type |-> "emergency_alert", data |-> alert])

----------------------------------------------------------------------------
(* server: updateVesselData *)

\* a variant of FleetSet: the map is replaced by the one entry
FleetSetOnly(map, vesselId, vessel) == [v \in {vesselId} |-> vessel]

\* Map.set
FleetSet(map, vesselId, vessel) ==
  [v \in (DOMAIN map) \cup {vesselId} |-> IF v = vesselId THEN vessel ELSE map[v]]

\* fleet.get(vesselId) || {}
ExistingVessel(map, vesselId) ==
  IF vesselId \in DOMAIN map THEN map[vesselId] ELSE EmptyObj

\* the object literal, with the fields it sets after the two spreads
TopLevelMerge(existingVessel, vesselData, t) ==
  Spread(Spread(existingVessel, vesselData),
         [lastSeen |-> t, status |-> determineVesselStatus(vesselData)])

\* a variant of NestedMerge: the groups stay as the top-level spread left them
NestedMergeOverwrite(mergedVessel, existingVessel, vesselData) == mergedVessel

\* one "if (vesselData.g || existingVessel.g) mergedVessel.g = {...}" per group
NestedMerge(mergedVessel, existingVessel, vesselData) ==
  [k \in DOMAIN mergedVessel |->
     IF k \in NestedGroups
        /\ (IsObj(Group(vesselData, k)) \/ IsObj(Group(existingVessel, k)))
       THEN Spread(ObjSpread(Group(existingVessel, k)), ObjSpread(Group(vesselData, k)))
       ELSE mergedVessel[k]]

\* a variant of MergedVessel: a fragment whose embedded timestamp is older than
\* the stored one only refreshes lastSeen
MergedVesselByTimestamp(existingVessel, vesselData, t) ==
  IF "timestamp" \in DOMAIN existingVessel /\ "timestamp" \in DOMAIN vesselData
     /\ vesselData.timestamp < existingVessel.timestamp
    THEN Spread(existingVessel, [lastSeen |-> t])
    ELSE LET top   == TopLevelMerge(existingVessel, vesselData, t)
             state == Spread(top, [operationalState |-> getOperationalState(top, t)])
         IN NestedMerge(state, existingVessel, vesselData)

\* mergedVessel as updateVesselData stores it: operationalState is computed
\* from the object literal, before the nested groups are merged
MergedVessel(existingVessel, vesselData, t) ==
  LET top   == TopLevelMerge(existingVessel, vesselData, t)
      state == Spread(top, [operationalState |-> getOperationalState(top, t)])
  IN NestedMerge(state, existingVessel, vesselData)

updateVesselData(st, vesselData, adapter, t) ==
  LET vesselId       == vesselData.vesselId
      existingVessel == ExistingVessel(st.fleet, vesselId)
      mergedVessel   == MergedVessel(existingVessel, vesselData, t)
      stored   == [st EXCEPT
                     !.fleet = FleetSet(@, vesselId, mergedVessel),
                     !.applied = Append(@, [adapter |-> adapter, vesselData |-> vesselData,
                                            before |-> existingVessel, time |-> t])]
      counted  == [stored EXCEPT
                     !.systemStatus.connectedVessels = Cardinality(DOMAIN stored.fleet)]
      alerted  == checkForAlerts(counted, vesselData, t)
      data     == [vesselId |-> vesselId, vessel |-> alerted.fleet[vesselId]]
  IN broadcastToClients([alerted EXCEPT !.lastUpdateSent = data],
                        [type |-> "vessel_update", data |-> data])

----------------------------------------------------------------------------
(* server: the socket adapter (connectToFerryControl, handleFerryControlMessage).
   The call of connectToFerryControl at the end of the server is commented
   out, so only the handler is modelled, not the connection. *)

handleFerryControlMessage(st, message, t) ==
  LET handled ==
        IF message.type \in {"vessel_state", "telemetry_update"}
          THEN updateVesselData(st, message.data, "ws", t)
        ELSE IF message.type = "emergency_alert"
          THEN handleEmergencyAlert(st, message.data, t)
        ELSE st
  IN [handled EXCEPT !.systemStatus.lastUpdate = t]

----------------------------------------------------------------------------
(* mqtt-client: client.on('message'), and the listeners the server registers *)

\* parts[i] of topic.split('/'), "" standing for undefined
Part(topic, i) == IF i <= Len(topic) THEN topic[i] ELSE ""

\* topic.startsWith('ferry/vessel/')
IsVesselTopic(topic) == Len(topic) >= 3 /\ topic[1] = "ferry" /\ topic[2] = "vessel"

\* a variant of VesselUpdateEvent: a status/systems payload is handed on as
\* it is, like any other
VesselUpdateEventNested(topic, payload) ==
  [vesselId |-> Part(topic, 3), category |-> Part(topic, 4), data |-> payload]

\* the 'vessel-update' event emitted for a topic under ferry/vessel/
VesselUpdateEvent(topic, payload) ==
  LET vesselId  == Part(topic, 3)
      category  == Part(topic, 4)
      component == Part(topic, 5)
  IN IF category = "status" /\ component = "systems" /\ IsObj(Group(payload, "systems"))
       THEN [vesselId |-> vesselId,
             category |-> "telemetry",
             data     |-> Spread(Spread([vesselId |-> vesselId], payload),
                            [engine     |-> Group(payload.systems, "engine"),
                             power      |-> Group(payload.systems, "power"),
                             safety     |-> Group(payload.systems, "safety"),
                             navigation |-> ObjSpread(Group(payload, "navigation")),
                             location   |-> ObjSpread(Group(payload, "location"))])]
       ELSE [vesselId |-> vesselId, category |-> category, data |-> payload]

\* a variant of OnVesselUpdate: the listener stores the update itself in the map
OnVesselUpdateOverwrite(st, update, t) ==
  LET vesselData == Spread([vesselId |-> update.vesselId], update.data)
  IN [st EXCEPT
        !.fleet = FleetSet(@, update.vesselId, vesselData),
        !.applied = Append(@, [adapter |-> "mqtt", vesselData |-> vesselData,
                               before |-> ExistingVessel(st.fleet, update.vesselId),
                               time |-> t])]

\* mqttClient.on('vessel-update')
OnVesselUpdate(st, update, t) ==
  updateVesselData(st, Spread([vesselId |-> update.vesselId], update.data), "mqtt", t)

\* mqttClient.on('alert'): the payload, with the topic and a timestamp added
OnAlert(st, topic, payload, t) ==
  handleEmergencyAlert(st, Spread(payload, [topic |-> topic, timestamp |-> t]), t)

\* mqttClient.on('weather-update')
OnWeatherUpdate(st, payload) ==
  broadcastToClients([st EXCEPT !.weatherData = payload],
                     [type |-> "weather_update", data |-> payload])

\* mqttClient.on('operations-update')
OnOperationsUpdate(st, payload) ==
  broadcastToClients(st, [type |-> "operations_update", data |-> payload])

OnMqttMessage(st, topic, payload, t) ==
  IF IsVesselTopic(topic) THEN OnVesselUpdate(st, VesselUpdateEvent(topic, payload), t)
  ELSE IF topic[1] = "alerts" THEN OnAlert(st, topic, payload, t)
  ELSE IF topic[1] = "operations" THEN OnOperationsUpdate(st, payload)
  ELSE IF topic[1] = "weather" THEN OnWeatherUpdate(st, payload)
  ELSE st

----------------------------------------------------------------------------
(* server: the dashboard sockets (wss.on('connection'), handleDashboardMessage).
   What mqttClient.isConnected() returns is left out of the messages. *)

\* the sockets of the dashboards, in the order the server accepts them
Sockets == <<"c1", "c2">>
ClientIds == {Sockets[i] : i \in 1..Len(Sockets)}

\* ws.send(JSON.stringify(message))
Send(st, ws, message) == [st EXCEPT !.sent[ws] = Append(@, message)]

\* Array.from(opsState.fleet.entries()).map(([id, data]) => ({ id, ...data })),
\* kept by vessel id
FleetArray(map) == [v \in DOMAIN map |-> Spread([id |-> v], map[v])]

\* the socket is registered, and nothing else is done yet
Registered(st, ws) ==
  [st EXCEPT !.dashboardClients = @ \cup {ws},
             !.readyState = Spread(@, [c \in {ws} |-> "OPEN"]),
             !.sent = Spread(@, [c \in {ws} |-> <<>>])]

\* the message initial_data
InitialData(st) ==
  [type |-> "initial_data",
   data |-> [fleet        |-> FleetArray(st.fleet),
             alerts       |-> Slice(st.alerts, SnapshotAlerts),
             systemStatus |-> st.systemStatus,
             weatherData  |-> st.weatherData]]

\* a variant of OnConnection: the MQTT status is sent before the snapshot
OnConnectionStatusFirst(st, ws) ==
  Send(Send(Registered(st, ws), ws, [type |-> "mqtt_status"]), ws, InitialData(st))

\* wss.on('connection')
OnConnection(st, ws) ==
  Send(Send(Registered(st, ws), ws, InitialData(st)), ws, [type |-> "mqtt_status"])

\* ws.on('close')
OnClose(st, ws) ==
  [st EXCEPT !.dashboardClients = @ \ {ws}, !.readyState[ws] = "CLOSED"]

acknowledgeAlert(st, alertId, t) ==
  LET found == {i \in 1..Len(st.alerts) : st.alerts[i].id = alertId}
  IN IF found = {} THEN st
     ELSE LET alertIndex == CHOOSE i \in found : \A j \in found : i <= j
          IN broadcastToClients(
               [st EXCEPT !.alerts[alertIndex] =
                            Spread(@, [acknowledged |-> TRUE, acknowledgedAt |-> t])],
               [type |-> "alert_acknowledged",
                data |-> [alertId |-> alertId, acknowledgedAt |-> t]])

\* ferryControlWs is null, connectToFerryControl never being called
acknowledgeEmergency(st, message) ==
  broadcastToClients(st, [type |-> "emergency_acknowledged",
                          data |-> [timestamp |-> message.timestamp]])

handleDashboardMessage(st, ws, message, t) ==
  IF message.type = "acknowledge_alert" THEN acknowledgeAlert(st, message.alertId, t)
  ELSE IF message.type = "acknowledge_emergency" THEN acknowledgeEmergency(st, message)
  ELSE IF message.type = "ping" THEN Send(st, ws, [type |-> "pong"])
  ELSE st

----------------------------------------------------------------------------
(* The messages of the model *)

WsMessages ==
  [type : {"vessel_state", "telemetry_update"},
   data : {Spread([vesselId |-> v], p) : v \in VesselIds, p \in WsPayloads}]
  \cup {[type |-> "emergency_alert",
         data |-> [vesselId |-> "v1", type |-> "collision", timestamp |-> 0]],
        [type |-> "pong"],
        [type |-> "heartbeat"]}

MqttDeliveries ==
  {[topic |-> <<"ferry", "vessel", v, "telemetry">>, payload |-> p] :
      v \in VesselIds, p \in MqttPayloads}
  \cup {[topic |-> <<"ferry", "vessel", v, "status", "systems">>, payload |-> Systems] :
      v \in VesselIds}
  \cup {[topic |-> <<"alerts", "emergency">>,
         payload |-> [vesselId |-> "v1", message |-> "Man overboard", type |-> "mob"]],
        [topic |-> <<"weather", "current">>,
         payload |-> [conditions |-> "Foggy", windSpeed |-> 25]],
        [topic |-> <<"operations", "schedule">>, payload |-> [delays |-> 1]]}

\* the values updateWeatherData draws
WeatherSamples == {[conditions |-> "Foggy", windSpeed |-> 25]}

\* the steps of the clock: the age at which telemetry stops being recent
TickSteps == {OfflineMinutes}

----------------------------------------------------------------------------
(* The actions *)

\* emergency alerts are the ones with a two-part id
Emergencies(log) == {i \in 1..Len(log) : Len(log[i].id) = 2}

\* updates and emergency alerts handled so far
Delivered == Len(applied) + Cardinality(Emergencies(alerts))

\* whether handling it counts against MaxMessages
Counted(kind) == kind \in {"vessel_state", "telemetry_update", "emergency_alert",
                           "ferry", "alerts"}

Store(st) ==
  /\ fleet' = st.fleet
  /\ alerts' = st.alerts
  /\ systemStatus' = st.systemStatus
  /\ weatherData' = st.weatherData
  /\ vesselEvents' = st.vesselEvents
  /\ applied' = st.applied
  /\ emitted' = st.emitted
  /\ lastUpdateSent' = st.lastUpdateSent
  /\ dashboardClients' = st.dashboardClients
  /\ readyState' = st.readyState
  /\ sent' = st.sent

\* ferryControlWs.on('message')
WsMessage ==
  \E message \in WsMessages :
    /\ Counted(message.type) => Delivered < MaxMessages
    /\ Store(handleFerryControlMessage(Ops, message, now))
    /\ UNCHANGED <<now, registeredAt, requests, lastPrune, store, transport>>

\* client.on('message') of the MQTT client
MqttMessage ==
  \E d \in MqttDeliveries :
    /\ Counted(d.topic[1]) => Delivered < MaxMessages
    /\ Store(OnMqttMessage(Ops, d.topic, d.payload, now))
    /\ UNCHANGED <<now, registeredAt, requests, lastPrune, store, transport>>

\* a variant of CleanOldAlerts: the age alone decides
CleanOldAlertsByAge(st, t) ==
  LET Keep(alert) == alert.timestamp > t - PruneMinutes
  IN updateAlertCounts([st EXCEPT !.alerts = SelectSeq(@, Keep)])

\* the callback of cron '0 * * * *': clean old alerts
CleanOldAlerts(st, t) ==
  LET Keep(alert) == alert.timestamp > t - PruneMinutes \/ alert.severity = "critical"
  IN updateAlertCounts([st EXCEPT !.alerts = SelectSeq(@, Keep)])

\* cron '0 * * * *'
PruneAlerts ==
  /\ Store(CleanOldAlerts(Ops, now))
  /\ UNCHANGED <<now, registeredAt, requests, lastPrune, store, transport>>

\* cron '*/30 * * * *': updateWeatherData
UpdateWeather ==
  \E w \in WeatherSamples :
    /\ Store(broadcastToClients([Ops EXCEPT !.weatherData = w],
                                [type |-> "weather_update", data |-> w]))
    /\ UNCHANGED <<now, registeredAt, requests, lastPrune, store, transport>>

Tick ==
  \E d \in TickSteps :
    /\ now + d <= MaxTime
    /\ now' = now + d
    /\ UNCHANGED <<fleet, alerts, systemStatus, weatherData, vesselEvents,
                   applied, emitted, lastUpdateSent, hub, lastPrune, store, transport>>

Next == WsMessage \/ MqttMessage \/ PruneAlerts \/ UpdateWeather \/ Tick

Spec == Init /\ [][Next]_vars

\* the timers fire, and time passes, whether or not messages arrive
FairSpec == Spec /\ WF_vars(Tick) /\ WF_vars(PruneAlerts) /\ WF_vars(UpdateWeather)

----------------------------------------------------------------------------
(* The server with dashboards connected.  Telemetry arrives over MQTT, the
   transport the server connects.  The dashboards acknowledge alerts and ping;
   request_historical, which answers from the database, is not among their
   messages. *)

HubMqttDeliveries ==
  {[topic |-> <<"ferry", "vessel", "v1", "telemetry">>, payload |-> HotEngine],
   [topic |-> <<"ferry", "vessel", DefaultVesselId, "telemetry">>, payload |-> Warnings],
   [topic |-> <<"alerts", "emergency">>,
    payload |-> [vesselId |-> "v1", message |-> "Man overboard", type |-> "mob"]]}

\* an id checkForAlerts gives at minute 0, and one it never gives
AlertIds == {<<"v1", "engine-temp", 0>>, <<"v1", "no-such-alert", 0>>}

DashboardMessages ==
  {[type |-> "acknowledge_alert", alertId |-> id] : id \in AlertIds}
  \cup {[type |-> "ping"]}

\* wss.on('connection')
Connection ==
  /\ Cardinality(DOMAIN readyState) < Len(Sockets)
  /\ LET ws == Sockets[Cardinality(DOMAIN readyState) + 1]
     IN /\ Store(OnConnection(Ops, ws))
        /\ registeredAt' = Spread(registeredAt, [c \in {ws} |-> Len(applied)])
  /\ UNCHANGED <<now, requests, lastPrune, store, transport>>

\* the closing handshake of a dashboard has begun: its readyState is CLOSING
SocketClosing ==
  \E ws \in dashboardClients :
    /\ readyState[ws] = "OPEN"
    /\ readyState' = [readyState EXCEPT ![ws] = "CLOSING"]
    /\ UNCHANGED <<fleet, alerts, systemStatus, weatherData, vesselEvents, now,
                   applied, emitted, lastUpdateSent, dashboardClients, sent,
                   registeredAt, requests, lastPrune, store, transport>>

\* ws.on('close'), after the handshake or when the connection is lost
SocketClose ==
  \E ws \in dashboardClients :
    /\ Store(OnClose(Ops, ws))
    /\ UNCHANGED <<now, registeredAt, requests, lastPrune, store, transport>>

\* ws.on('message')
DashboardMessage ==
  \E ws \in dashboardClients : \E message \in DashboardMessages :
    /\ readyState[ws] = "OPEN"
    /\ Len(requests) < MaxRequests
    /\ Store(handleDashboardMessage(Ops, ws, message, now))
    /\ requests' = Append(requests, [client |-> ws, message |-> message])
    /\ UNCHANGED <<now, registeredAt, lastPrune, store, transport>>

\* client.on('message') of the MQTT client
HubMqttMessage ==
  \E d \in HubMqttDeliveries :
    /\ Delivered < MaxMessages
    /\ Store(OnMqttMessage(Ops, d.topic, d.payload, now))
    /\ UNCHANGED <<now, registeredAt, requests, lastPrune, store, transport>>

\* dashboards come and go while telemetry and emergency alerts arrive
HubNext == Connection \/ SocketClosing \/ SocketClose \/ HubMqttMessage

HubSpec == Init /\ [][HubNext]_vars

\* dashboards connect and send messages while telemetry arrives and time passes
AckNext == Connection \/ DashboardMessage \/ HubMqttMessage \/ Tick

AckSpec == Init /\ [][AckNext]_vars

----------------------------------------------------------------------------
(* The server a day after start-up, its alert log at or just under the cap.
   Vessel v1 reported its engine temperature once a minute from minute 0 on,
   over MQTT, every reading above the threshold and every tenth, the first one
   included, critical; then it fell silent. *)

\* the k-th of these fragments, applied at minute k - 1
Reading(k) ==
  [vesselId |-> "v1", engine |-> [temperature |-> IF k % 10 = 1 THEN 106 ELSE 96]]

\* the alert of the k-th fragment
ReadingAlert(k) == NewAlerts(Reading(k), k - 1)[1]

\* the numbers of fragments the behaviours start after
LogSizes == {AlertCap - 1, AlertCap}

\* opsState.alerts after n fragments, newest first
FilledLog(n) == [i \in 1..n |-> ReadingAlert(n - i + 1)]

\* the record of v1 after n >= 2 fragments: they all carry the same fields, so
\* it is the first one merged into nothing and the last one merged into that
FilledVessel(n) ==
  MergedVessel(MergedVessel(EmptyObj, Reading(1), 0), Reading(n), n - 1)

\* the minute the behaviours start at
LogStart == PruneMinutes - 1

LogInit ==
  \E n \in LogSizes :
    /\ fleet = FleetSet([v \in {DefaultVesselId} |-> initializeDefaultVessel],
                        "v1", FilledVessel(n))
    /\ alerts = FilledLog(n)
    /\ systemStatus = [monitoring |-> TRUE, lastUpdate |-> 0, connectedVessels |-> 2,
                       totalAlerts |-> n,
                       criticalAlerts |-> Cardinality({k \in 1..n : k % 10 = 1})]
    /\ weatherData = [conditions |-> "Partly Cloudy", windSpeed |-> 15]
    /\ vesselEvents = [k \in 1..n |-> TrackAlert(ReadingAlert(k), k - 1)]
    /\ now = LogStart
    /\ applied = <<>>
    /\ emitted = <<>>
    /\ lastUpdateSent = Undefined
    /\ dashboardClients = {}
    /\ readyState = EmptyObj
    /\ sent = EmptyObj
    /\ registeredAt = EmptyObj
    /\ requests = <<>>
    /\ lastPrune = Undefined
    /\ EmptyStore
    /\ transport = Unconnected

\* what the transports deliver in these behaviours
LogWsMessages ==
  {[type |-> "telemetry_update", data |-> Spread([vesselId |-> "v1"], HotEngine)]}

LogMqttDeliveries ==
  {[topic |-> <<"ferry", "vessel", "v1", "telemetry">>, payload |-> Warnings],
   [topic |-> <<"alerts", "emergency">>,
    payload |-> [vesselId |-> "v1", message |-> "Man overboard", type |-> "mob"]]}

\* ferryControlWs.on('message')
LogWsMessage ==
  \E message \in LogWsMessages :
    /\ Delivered < MaxMessages
    /\ Store(handleFerryControlMessage(Ops, message, now))
    /\ UNCHANGED <<now, registeredAt, requests, lastPrune, store, transport>>

\* client.on('message') of the MQTT client
LogMqttMessage ==
  \E d \in LogMqttDeliveries :
    /\ Delivered < MaxMessages
    /\ Store(OnMqttMessage(Ops, d.topic, d.payload, now))
    /\ UNCHANGED <<now, registeredAt, requests, lastPrune, store, transport>>

\* cron '0 * * * *', the log before and after it recorded
LogPruneAlerts ==
  /\ Store(CleanOldAlerts(Ops, now))
  /\ lastPrune' = [before |-> alerts, after |-> CleanOldAlerts(Ops, now).alerts,
                   time |-> now]
  /\ UNCHANGED <<now, registeredAt, requests, store, transport>>

LogTick ==
  /\ now < LogMaxTime
  /\ now' = now + 1
  /\ UNCHANGED <<fleet, alerts, systemStatus, weatherData, vesselEvents,
                 applied, emitted, lastUpdateSent, hub, lastPrune, store, transport>>

LogNext == LogWsMessage \/ LogMqttMessage \/ LogPruneAlerts \/ LogTick

LogSpec == LogInit /\ [][LogNext]_vars

----------------------------------------------------------------------------
(* db/database and db/historical-data: the tables telemetry,
   telemetry_aggregates and vessel_events.  A nullable column holds <<>> for
   NULL and <<v>> for the value v.  A statement runs when it is issued: the
   callbacks of one call run as one step. *)

Null == <<>>

\* the database as the statements see it
Db ==
  [telemetry |-> telemetry, telemetry_aggregates |-> aggregates,
   vessel_events |-> vesselEvents, sqlite_sequence |-> sqliteSequence]

\* INSERT into a table with an AUTOINCREMENT id
Insert(db, table, row) ==
  LET id == db.sqlite_sequence[table] + 1
  IN [db EXCEPT ![table] = Append(@, Spread(row, [id |-> id])),
                !.sqlite_sequence[table] = id]

\* vesselData.g?.k || null, for a field that holds a number: 0 becomes NULL
OrNull(vesselData, g, k) ==
  IF HasField(vesselData, g, k) /\ vesselData[g][k] # 0
    THEN <<vesselData[g][k]>> ELSE Null

\* vesselData.navigation?.k || vesselData.location?.k || null
NavigationOrLocation(vesselData, k) ==
  IF OrNull(vesselData, "navigation", k) # Null
    THEN OrNull(vesselData, "navigation", k)
    ELSE OrNull(vesselData, "location", k)

\* vesselData.a || vesselData.b || null, for fields that hold strings
StringOrNull(vesselData, a, b) ==
  IF TruthyString(vesselData, a) THEN <<vesselData[a]>>
  ELSE IF TruthyString(vesselData, b) THEN <<vesselData[b]>>
  ELSE Null

\* the parameters of the INSERT of saveTelemetry; t is new Date() at the call
TelemetryParams(vesselData, t) ==
  [vessel_id         |-> StringOrNull(vesselData, "vesselId", "id"),
   timestamp         |-> t,
   engine_rpm        |-> OrNull(vesselData, "engine", "rpm"),
   engine_temp       |-> OrNull(vesselData, "engine", "temperature"),
   fuel_flow         |-> OrNull(vesselData, "engine", "fuelFlow"),
   battery_soc       |-> OrNull(vesselData, "power", "batterySOC"),
   voltage           |-> OrNull(vesselData, "power", "voltage"),
   generator_load    |-> OrNull(vesselData, "power", "generatorLoad"),
   speed             |-> NavigationOrLocation(vesselData, "speed"),
   heading           |-> NavigationOrLocation(vesselData, "heading"),
   latitude          |-> NavigationOrLocation(vesselData, "latitude"),
   longitude         |-> NavigationOrLocation(vesselData, "longitude"),
   bilge_level       |-> OrNull(vesselData, "safety", "bilgeLevel"),
   co2_level         |-> OrNull(vesselData, "safety", "co2Level"),
   operational_state |-> StringOrNull(vesselData, "operationalState", "operational"),
   created_at        |-> t]

\* vessel_id is NOT NULL: without one the INSERT fails and the error is logged
saveTelemetry(db, vesselData, t) ==
  LET params == TelemetryParams(vesselData, t)
  IN IF params.vessel_id = Null THEN db
     ELSE Insert(db, "telemetry", [params EXCEPT !.vessel_id = @[1]])

----------------------------------------------------------------------------
(* workers/data-collector *)

\* collectTelemetry: data less than this many seconds old is fresh
FreshSeconds == 30
\* start: the period of collectTelemetry, and the delay of the first aggregation
CollectSeconds == 5
InitialSeconds == 60

\* a variant of Fresh: data exactly thirty seconds old is fresh too
FreshOrThirty(vesselData, t) ==
  "lastSeen" \in DOMAIN vesselData /\ t - vesselData.lastSeen <= FreshSeconds

\* vesselData && vesselData.lastSeen && secondsSinceUpdate < 30
Fresh(vesselData, t) ==
  "lastSeen" \in DOMAIN vesselData /\ t - vesselData.lastSeen < FreshSeconds

\* the entries of the Map opsState.fleet in the order of their insertion:
\* the default vessel is set at start-up
FleetEntries(map) ==
  (IF DefaultVesselId \in DOMAIN map THEN <<DefaultVesselId>> ELSE <<>>)
  \o (IF "v1" \in DOMAIN map THEN <<"v1">> ELSE <<>>)

RECURSIVE CollectEach(_, _, _, _)
CollectEach(db, map, entries, t) ==
  IF entries = <<>> THEN db
  ELSE CollectEach(IF Fresh(map[Head(entries)], t)
                     THEN saveTelemetry(db, map[Head(entries)], t) ELSE db,
                   map, Tail(entries), t)

collectTelemetry(db, map, t) == CollectEach(db, map, FleetEntries(map), t)

----------------------------------------------------------------------------
(* db/historical-data: aggregateData *)

\* this.aggregationIntervals, in seconds
AggregationInterval(intervalType) == IF intervalType = "5min" THEN 300 ELSE 3600

\* this.metrics
Metrics ==
  <<"engine_rpm", "engine_temp", "fuel_flow", "battery_soc", "voltage",
    "generator_load", "speed", "bilge_level", "co2_level">>

\* a variant of WindowStart: the window the clock is in
WindowStartCurrent(intervalType, t) ==
  (t \div AggregationInterval(intervalType)) * AggregationInterval(intervalType)

\* startTime: the start of the last window that has ended
WindowStart(intervalType, t) ==
  (t \div AggregationInterval(intervalType)) * AggregationInterval(intervalType)
    - AggregationInterval(intervalType)

RECURSIVE SumOf(_)
SumOf(values) == IF values = <<>> THEN 0 ELSE Head(values) + SumOf(Tail(values))

RECURSIVE GCD(_, _)
GCD(a, b) == IF b = 0 THEN a ELSE GCD(b, a % b)

\* the REAL sum / n, kept as a fraction in lowest terms
Ratio(sum, n) ==
  LET g == GCD(IF sum < 0 THEN -sum ELSE sum, n)
  IN [num |-> sum \div g, den |-> n \div g]

\* SELECT MIN(x), MAX(x), AVG(x), COUNT(x) over the values of a column that
\* are not NULL, in one row
Aggregate(values) ==
  IF values = <<>>
    THEN [min |-> Null, max |-> Null, avg |-> Null, count |-> 0]
    ELSE LET range == {values[i] : i \in 1..Len(values)}
         IN [min   |-> <<CHOOSE v \in range : \A w \in range : v <= w>>,
             max   |-> <<CHOOSE v \in range : \A w \in range : v >= w>>,
             avg   |-> <<Ratio(SumOf(values), Len(values))>>,
             count |-> Len(values)]

\* the values of a column in the rows
ColumnValues(rows, column) ==
  LET notNull == SelectSeq(rows, LAMBDA row : row[column] # Null)
  IN [i \in 1..Len(notNull) |-> notNull[i][column][1]]

\* the rows of telemetry WHERE vessel_id = ? AND timestamp >= ? AND timestamp < ?
RowsInWindow(db, vesselId, startTime, endTime) ==
  SelectSeq(db.telemetry,
            LAMBDA row : /\ row.vessel_id = vesselId
                         /\ row.timestamp >= startTime
                         /\ row.timestamp < endTime)

\* the row of MIN, MAX, AVG and COUNT that db.get hands to its callback for
\* one vessel and one metric
WindowStats(db, vesselId, metric, startTime, endTime) ==
  Aggregate(ColumnValues(RowsInWindow(db, vesselId, startTime, endTime), metric))

\* SELECT DISTINCT vessel_id FROM telemetry WHERE timestamp >= ? AND timestamp < ?
\* (the vessels are taken in the order of the fleet)
VesselsInWindow(db, startTime, endTime) ==
  SelectSeq(<<DefaultVesselId, "v1">>,
            LAMBDA v : RowsInWindow(db, v, startTime, endTime) # <<>>)

\* vessels.forEach(... this.metrics.forEach(...)): the pairs in turn
VesselMetrics(vessels) ==
  [i \in 1..(Len(vessels) * Len(Metrics)) |->
     [vessel_id |-> vessels[((i - 1) \div Len(Metrics)) + 1],
      metric    |-> Metrics[((i - 1) % Len(Metrics)) + 1]]]

\* the INSERTs of the callbacks of db.get: one for every pair whose
\* stats.count > 0; they read telemetry only, so they are taken together
aggregateData(db, intervalType, t) ==
  LET startTime == WindowStart(intervalType, t)
      endTime   == startTime + AggregationInterval(intervalType)
      Stats(p)  == WindowStats(db, p.vessel_id, p.metric, startTime, endTime)
      counted   == SelectSeq(VesselMetrics(VesselsInWindow(db, startTime, endTime)),
                             LAMBDA p : Stats(p).count > 0)
      last      == db.sqlite_sequence.telemetry_aggregates
      rows      == [i \in 1..Len(counted) |->
                      [id            |-> last + i,
                       vessel_id     |-> counted[i].vessel_id,
                       timestamp     |-> startTime,
                       interval_type |-> intervalType,
                       metric_name   |-> counted[i].metric,
                       min_value     |-> Stats(counted[i]).min,
                       max_value     |-> Stats(counted[i]).max,
                       avg_value     |-> Stats(counted[i]).avg,
                       count         |-> Stats(counted[i]).count,
                       created_at    |-> t]]
  IN [db EXCEPT !.telemetry_aggregates = @ \o rows,
                !.sqlite_sequence.telemetry_aggregates = last + Len(rows)]

----------------------------------------------------------------------------
(* db/historical-data: cleanupOldData *)

\* 24 * 60 * 60 and 7 * 24 * 60 * 60 seconds
DaySeconds == 86400
WeekSeconds == 604800

\* a variant of cleanupOldData: events are kept one day, as the samples are
cleanupOldDataOneDay(db, t) ==
  [db EXCEPT
     !.telemetry = SelectSeq(@, LAMBDA row : ~(row.timestamp < t - DaySeconds)),
     !.telemetry_aggregates = SelectSeq(@, LAMBDA row : ~(row.timestamp < t - DaySeconds)),
     !.vessel_events = SelectSeq(@, LAMBDA row : ~(row.timestamp < t - DaySeconds))]

\* the three DELETE ... WHERE timestamp < ?
cleanupOldData(db, t) ==
  [db EXCEPT
     !.telemetry = SelectSeq(@, LAMBDA row : ~(row.timestamp < t - DaySeconds)),
     !.telemetry_aggregates = SelectSeq(@, LAMBDA row : ~(row.timestamp < t - DaySeconds)),
     !.vessel_events = SelectSeq(@, LAMBDA row : ~(row.timestamp < t - WeekSeconds))]

----------------------------------------------------------------------------
(* db/historical-data: getHistoricalData, exportToCSV, getStatistics.  t is
   Date.now() at the call; the value is the one the promise resolves with. *)

\* ORDER BY timestamp ASC: rows with one timestamp stay in the order of their ids
OrderByTimestamp(rows) ==
  LET Rank(i) == Cardinality({j \in 1..Len(rows) :
                                \/ rows[j].timestamp < rows[i].timestamp
                                \/ rows[j].timestamp = rows[i].timestamp /\ j < i})
  IN [k \in 1..Len(rows) |-> rows[CHOOSE i \in 1..Len(rows) : Rank(i) = k - 1]]

\* ORDER BY timestamp DESC
OrderByTimestampDesc(rows) ==
  LET asc == OrderByTimestamp(rows)
  IN [k \in 1..Len(asc) |-> asc[Len(asc) + 1 - k]]

\* { '1h': 1, '6h': 6, '12h': 12, '24h': 24 }[timeRange] || 24
HistoricalHours(timeRange) ==
  CASE timeRange = "1h" -> 1 [] timeRange = "6h" -> 6 [] timeRange = "12h" -> 12
    [] OTHER -> 24

\* SELECT timestamp, metric as value FROM telemetry WHERE vessel_id = ? AND
\* timestamp > ? AND metric IS NOT NULL ORDER BY timestamp ASC; the value is
\* a REAL, written as the avg of a bucket is
RawPoints(db, vesselId, metric, since) ==
  LET rows == OrderByTimestamp(
                SelectSeq(db.telemetry,
                          LAMBDA row : /\ row.vessel_id = vesselId
                                       /\ row.timestamp > since
                                       /\ row[metric] # Null))
  IN [k \in 1..Len(rows) |-> [timestamp |-> rows[k].timestamp,
                              value     |-> Ratio(rows[k][metric][1], 1)]]

\* SELECT timestamp, avg_value as value FROM telemetry_aggregates WHERE
\* vessel_id = ? AND metric_name = ? AND interval_type = '5min' AND
\* timestamp > ? ORDER BY timestamp ASC
AggregatePoints(db, vesselId, metric, since) ==
  LET rows == OrderByTimestamp(
                SelectSeq(db.telemetry_aggregates,
                          LAMBDA row : /\ row.vessel_id = vesselId
                                       /\ row.metric_name = metric
                                       /\ row.interval_type = "5min"
                                       /\ row.timestamp > since))
  IN [k \in 1..Len(rows) |-> [timestamp |-> rows[k].timestamp,
                              value     |-> rows[k].avg_value[1]]]

\* a variant of getHistoricalData: every range reads the raw rows
getHistoricalDataRaw(db, vesselId, metric, timeRange, t) ==
  RawPoints(db, vesselId, metric, t - HistoricalHours(timeRange) * 60 * 60)

getHistoricalData(db, vesselId, metric, timeRange, t) ==
  LET since == t - HistoricalHours(timeRange) * 60 * 60
  IN IF timeRange = "1h" \/ timeRange = "6h"
       THEN RawPoints(db, vesselId, metric, since)
       ELSE AggregatePoints(db, vesselId, metric, since)

\* { '1h': 1, '12h': 12, '24h': 24 }[timeRange] || 24
ExportHours(timeRange) ==
  CASE timeRange = "1h" -> 1 [] timeRange = "12h" -> 12 [] OTHER -> 24

\* the columns of telemetry, as Object.keys of a row of SELECT * gives them
TelemetryColumns ==
  <<"id", "vessel_id", "timestamp", "engine_rpm", "engine_temp", "fuel_flow",
    "battery_soc", "voltage", "generator_load", "speed", "heading", "latitude",
    "longitude", "bilge_level", "co2_level", "operational_state", "created_at">>

\* A text is a sequence of tokens: "," and "\n", and the pieces between
\* them.  array.join(separator), for an array of texts:
RECURSIVE Join(_, _)
Join(texts, separator) ==
  IF texts = <<>> THEN <<>>
  ELSE IF Len(texts) = 1 THEN texts[1]
  ELSE texts[1] \o <<separator>> \o Join(Tail(texts), separator)

\* val !== null ? val : '', as join writes it: a string as it is, a number
\* in digits, null as nothing
Field(row, column) ==
  IF column \in {"id", "timestamp", "created_at"} THEN <<ToString(row[column])>>
  ELSE IF column = "vessel_id" THEN <<row[column]>>
  ELSE IF row[column] = Null THEN <<>>
  ELSE IF column = "operational_state" THEN row[column]
  ELSE <<ToString(row[column][1])>>

\* SELECT * FROM telemetry WHERE vessel_id = ? AND timestamp > ? ORDER BY
\* timestamp DESC, written as headers + '\n' + csvRows.join('\n'); '' when
\* there is no row
exportToCSV(db, vesselId, timeRange, t) ==
  LET since   == t - ExportHours(timeRange) * 60 * 60
      rows    == OrderByTimestampDesc(
                   SelectSeq(db.telemetry,
                             LAMBDA row : row.vessel_id = vesselId /\ row.timestamp > since))
      headers == Join([c \in 1..Len(TelemetryColumns) |-> <<TelemetryColumns[c]>>], ",")
      csvRows == [k \in 1..Len(rows) |->
                    Join([c \in 1..Len(TelemetryColumns) |->
                            Field(rows[k], TelemetryColumns[c])], ",")]
  IN IF rows = <<>> THEN <<>>
     ELSE headers \o <<"\n">> \o Join(csvRows, "\n")

\* { min: 0, max: 0, avg: 0, count: 0 }
ZeroStatistics ==
  [min |-> <<0>>, max |-> <<0>>, avg |-> <<Ratio(0, 1)>>, count |-> 0]

\* SELECT MIN, MAX, AVG, COUNT ... WHERE vessel_id = ? AND timestamp > ? AND
\* metric IS NOT NULL: the one row of the aggregate, which is an object, so
\* that "stats || {...}" is stats; err is the error of db.get
getStatistics(db, vesselId, metric, timeRange, err, t) ==
  LET hoursAgo == IF timeRange = "24h" THEN 24 ELSE 1
      since    == t - hoursAgo * 60 * 60
      rows     == SelectSeq(db.telemetry,
                            LAMBDA row : row.vessel_id = vesselId /\ row.timestamp > since)
  IN IF err THEN ZeroStatistics ELSE Aggregate(ColumnValues(rows, metric))

----------------------------------------------------------------------------
(* The first minute of the process, with the data collector running.  The
   clock counts seconds.  The process starts, with a new database, fifty
   seconds before the end of an hour, so that the tasks of cron and the first
   aggregation, one minute after the start, fall into these behaviours. *)

\* the second of the start
StartSecond == 3550
\* the last second of the clock
CollectMaxTime == 3615

\* initializeDefaultVessel, called at second t
StartedVessel(t) ==
  Spread(initializeDefaultVessel, [lastTelemetry |-> t, lastSeen |-> t, timestamp |-> t])

CollectInit ==
  /\ fleet = [v \in {DefaultVesselId} |-> StartedVessel(StartSecond)]
  /\ alerts = <<>>
  /\ systemStatus = [monitoring |-> TRUE, lastUpdate |-> StartSecond,
                     connectedVessels |-> 1, totalAlerts |-> 0, criticalAlerts |-> 0]
  /\ weatherData = [conditions |-> "Partly Cloudy", windSpeed |-> 15]
  /\ vesselEvents = <<>>
  /\ now = StartSecond
  /\ applied = <<>>
  /\ emitted = <<>>
  /\ lastUpdateSent = Undefined
  /\ dashboardClients = {}
  /\ readyState = EmptyObj
  /\ sent = EmptyObj
  /\ registeredAt = EmptyObj
  /\ requests = <<>>
  /\ lastPrune = Undefined
  /\ telemetry = <<>>
  /\ aggregates = <<>>
  /\ sqliteSequence = [telemetry |-> 0, telemetry_aggregates |-> 0]
  /\ ran = [start |-> StartSecond]
  /\ reply = Undefined
  /\ transport = Unconnected

\* the telemetry of v1 the broker delivers, in this order: none of it
\* breaches a threshold
CollectDeliveries ==
  <<[topic |-> <<"ferry", "vessel", "v1", "telemetry">>, payload |-> Limits],
    [topic |-> <<"ferry", "vessel", "v1", "status", "systems">>, payload |-> Systems]>>

\* whether the timer of the task fires at second t: setInterval(5000) and
\* setTimeout(60000) count from the start, cron from the clock
Due(task, t) ==
  CASE task = "collect" -> t > ran.start /\ (t - ran.start) % CollectSeconds = 0
    [] task = "5min"    -> t % 300 = 0
    [] task = "hour"    -> t % 3600 = 0
    [] task = "cleanup" -> t % 3600 = 1800
    [] task = "initial" -> t = ran.start + InitialSeconds

Tasks == {"collect", "5min", "hour", "cleanup", "initial"}

\* stop() has been called: clearInterval, and task.stop() for the tasks of
\* cron; the timer of the first aggregation is kept in no field
Cleared(task) == "stop" \in DOMAIN ran /\ task # "initial"

\* the timer has fired and its callback has not run yet
Pending(task) ==
  IF Due(task, now) /\ ~Cleared(task)
    THEN (IF task \in DOMAIN ran THEN ran[task] # now ELSE TRUE)
  ELSE FALSE

StoreDb(db) ==
  /\ telemetry' = db.telemetry
  /\ aggregates' = db.telemetry_aggregates
  /\ vesselEvents' = db.vessel_events
  /\ sqliteSequence' = db.sqlite_sequence

\* the callback of the task has run at this second
Ran(task) == ran' = Spread(ran, [k \in {task} |-> now])

\* client.on('message') of the MQTT client
CollectMqttMessage ==
  /\ Len(applied) < Len(CollectDeliveries)
  /\ LET d == CollectDeliveries[Len(applied) + 1]
     IN Store(OnMqttMessage(Ops, d.topic, d.payload, now))
  /\ UNCHANGED <<now, registeredAt, requests, lastPrune, telemetry, aggregates,
                 sqliteSequence, ran, reply, transport>>

\* setInterval(() => this.collectTelemetry(), 5000)
CollectTick ==
  /\ Pending("collect")
  /\ StoreDb(collectTelemetry(Db, fleet, now))
  /\ Ran("collect")
  /\ UNCHANGED <<fleet, alerts, systemStatus, weatherData, now, applied, emitted,
                 lastUpdateSent, hub, lastPrune, reply, transport>>

\* cron '*/5 * * * *'
Aggregate5Min ==
  /\ Pending("5min")
  /\ StoreDb(aggregateData(Db, "5min", now))
  /\ Ran("5min")
  /\ UNCHANGED <<fleet, alerts, systemStatus, weatherData, now, applied, emitted,
                 lastUpdateSent, hub, lastPrune, reply, transport>>

\* cron '0 * * * *' of the data collector
AggregateHour ==
  /\ Pending("hour")
  /\ StoreDb(aggregateData(Db, "hour", now))
  /\ Ran("hour")
  /\ UNCHANGED <<fleet, alerts, systemStatus, weatherData, now, applied, emitted,
                 lastUpdateSent, hub, lastPrune, reply, transport>>

\* setTimeout(..., 60000): the initial aggregation
InitialAggregation ==
  /\ Pending("initial")
  /\ StoreDb(aggregateData(aggregateData(Db, "5min", now), "hour", now))
  /\ Ran("initial")
  /\ UNCHANGED <<fleet, alerts, systemStatus, weatherData, now, applied, emitted,
                 lastUpdateSent, hub, lastPrune, reply, transport>>

\* the clock reaches the next second a timer fires at, once every callback
\* due at this one has run
CollectClock ==
  /\ \A task \in Tasks : ~Pending(task)
  /\ now + CollectSeconds <= CollectMaxTime
  /\ now' = now + CollectSeconds
  /\ UNCHANGED <<fleet, alerts, systemStatus, weatherData, vesselEvents,
                 applied, emitted, lastUpdateSent, hub, lastPrune, store, transport>>

CollectNext ==
  \/ CollectMqttMessage \/ CollectTick \/ Aggregate5Min \/ AggregateHour
  \/ InitialAggregation \/ CollectClock

CollectSpec == CollectInit /\ [][CollectNext]_vars

\* dataCollector.stop()
Stop ==
  /\ "stop" \notin DOMAIN ran
  /\ Ran("stop")
  /\ UNCHANGED <<fleet, alerts, systemStatus, weatherData, vesselEvents, now,
                 applied, emitted, lastUpdateSent, hub, lastPrune, telemetry,
                 aggregates, sqliteSequence, reply, transport>>

\* the first minute of the process, the collector being stopped at some second
StopNext == CollectNext \/ Stop

StopSpec == CollectInit /\ [][StopNext]_vars

----------------------------------------------------------------------------
(* The process in its ninth day, with the data collector running and the
   dashboards asking for the history.  The clock counts seconds and the
   process starts at second 0.  v1 reports seven times; every report brings
   a critical alert, so that the hourly prune of the alert log removes
   nothing.  The clock goes from one second at which a callback has
   something to do to the next: at the seconds left out collectTelemetry
   finds no vessel seen in the last thirty seconds, aggregateData no sample
   in its window, and cleanupOldData no row old enough. *)

\* the cleanup of old data at half past the 192nd hour
LastCleanup == 192 * 60 * 60 + 30 * 60

Hotter == [engine |-> [temperature |-> 110], power |-> [batterySOC |-> 50]]

\* the telemetry of v1 the broker delivers and the seconds it arrives at:
\* the state of charge of the battery comes with the last report only
QueryDeliveries ==
  LET Telemetry(t, payload) ==
        [time |-> t, topic |-> <<"ferry", "vessel", "v1", "telemetry">>,
         payload |-> payload]
  IN <<Telemetry(LastCleanup - WeekSeconds - 1203, HotEngine),
       Telemetry(LastCleanup - WeekSeconds, HotEngine),
       Telemetry(LastCleanup - DaySeconds - 13, HotEngine),
       Telemetry(LastCleanup - 18 * 60 * 60 - 3, HotEngine),
       Telemetry(LastCleanup - 9 * 60 * 60 - 3, HotEngine),
       Telemetry(LastCleanup - 6 * 60 * 60 - 13, HotEngine),
       Telemetry(LastCleanup - 60 * 60 - 13, Hotter)>>

\* the seconds at which collectTelemetry finds a vessel last seen at second
\* t fresh
SampleTicks(t) ==
  {u \in t..(t + FreshSeconds - 1) : u > 0 /\ u % CollectSeconds = 0}

\* the second of the first cleanup that finds a row with this timestamp
\* older than the given age
CleanupOf(timestamp, age) == ((timestamp + age - 1800) \div 3600 + 1) * 3600 + 1800

\* the seconds at which a callback has something to do with a sample taken
\* at second u: the sample itself, the ends of its two windows, and the
\* cleanups that remove it and its two buckets
SampleInstants(u) ==
  {u, (u \div 300 + 1) * 300, (u \div 3600 + 1) * 3600,
   CleanupOf(u, DaySeconds), CleanupOf((u \div 300) * 300, DaySeconds),
   CleanupOf((u \div 3600) * 3600, DaySeconds)}

\* the seconds of the clock, up to the last cleanup
Instants ==
  LET seen == {0} \cup {QueryDeliveries[i].time : i \in 1..Len(QueryDeliveries)}
  IN {t \in {InitialSeconds, LastCleanup}
            \cup seen
            \cup {CleanupOf(m, WeekSeconds) : m \in seen}
            \cup UNION {SampleInstants(u) : u \in UNION {SampleTicks(m) : m \in seen}} :
        t <= LastCleanup}

QueryInit ==
  /\ fleet = [v \in {DefaultVesselId} |-> StartedVessel(0)]
  /\ alerts = <<>>
  /\ systemStatus = [monitoring |-> TRUE, lastUpdate |-> 0, connectedVessels |-> 1,
                     totalAlerts |-> 0, criticalAlerts |-> 0]
  /\ weatherData = [conditions |-> "Partly Cloudy", windSpeed |-> 15]
  /\ vesselEvents = <<>>
  /\ now = 0
  /\ applied = <<>>
  /\ emitted = <<>>
  /\ lastUpdateSent = Undefined
  /\ dashboardClients = {}
  /\ readyState = EmptyObj
  /\ sent = EmptyObj
  /\ registeredAt = EmptyObj
  /\ requests = <<>>
  /\ lastPrune = Undefined
  /\ telemetry = <<>>
  /\ aggregates = <<>>
  /\ sqliteSequence = [telemetry |-> 0, telemetry_aggregates |-> 0]
  /\ ran = [start |-> 0]
  /\ reply = Undefined
  /\ transport = Unconnected

\* the message the broker delivers at this second
Arriving ==
  /\ Len(applied) < Len(QueryDeliveries)
  /\ QueryDeliveries[Len(applied) + 1].time = now

\* client.on('message') of the MQTT client
QueryMqttMessage ==
  /\ Arriving
  /\ LET d == QueryDeliveries[Len(applied) + 1]
     IN Store(OnMqttMessage(Ops, d.topic, d.payload, now))
  /\ UNCHANGED <<now, registeredAt, requests, lastPrune, telemetry, aggregates,
                 sqliteSequence, ran, reply, transport>>

\* cron '30 * * * *'
Cleanup ==
  /\ Pending("cleanup")
  /\ StoreDb(cleanupOldData(Db, now))
  /\ Ran("cleanup")
  /\ UNCHANGED <<fleet, alerts, systemStatus, weatherData, now, applied, emitted,
                 lastUpdateSent, hub, lastPrune, reply, transport>>

QueryClock ==
  /\ \A task \in Tasks : ~Pending(task)
  /\ ~Arriving
  /\ LET later == {t \in Instants : t > now}
     IN /\ later # {}
        /\ now' = CHOOSE t \in later : \A u \in later : t <= u
  /\ UNCHANGED <<fleet, alerts, systemStatus, weatherData, vesselEvents,
                 applied, emitted, lastUpdateSent, hub, lastPrune, store, transport>>

\* what the dashboards ask for
QueryVessels == {"v1", DefaultVesselId}
QueryMetrics == {"engine_temp", "battery_soc"}
TimeRanges == {"1h", "6h", "12h", "24h", "7d"}

\* the dashboards ask at the second of the last cleanup, before it or after it
Asking == now = LastCleanup

Replied(op, vesselId, metric, timeRange, value) ==
  /\ reply' = [op |-> op, vesselId |-> vesselId, metric |-> metric,
               timeRange |-> timeRange, time |-> now, value |-> value]
  /\ UNCHANGED <<fleet, alerts, systemStatus, weatherData, vesselEvents, now,
                 applied, emitted, lastUpdateSent, hub, lastPrune, telemetry,
                 aggregates, sqliteSequence, ran, transport>>

\* historicalData.getHistoricalData(vessel, dbMetric, timeRange)
Query ==
  /\ Asking
  /\ \E v \in QueryVessels : \E metric \in QueryMetrics : \E timeRange \in TimeRanges :
       Replied("getHistoricalData", v, metric, timeRange,
               getHistoricalData(Db, v, metric, timeRange, now))

\* historicalData.exportToCSV(vessel, timeRange)
Export ==
  /\ Asking
  /\ \E v \in QueryVessels : \E timeRange \in TimeRanges :
       Replied("exportToCSV", v, "", timeRange, exportToCSV(Db, v, timeRange, now))

\* historicalData.getStatistics(vessel, metric, timeRange); db.get may fail
Statistics ==
  /\ Asking
  /\ \E v \in QueryVessels : \E metric \in QueryMetrics : \E timeRange \in TimeRanges :
       \E err \in BOOLEAN :
         Replied(IF err THEN "getStatistics, db.get fails" ELSE "getStatistics",
                 v, metric, timeRange,
                 getStatistics(Db, v, metric, timeRange, err, now))

QueryNext ==
  \/ QueryMqttMessage \/ CollectTick \/ Aggregate5Min \/ AggregateHour
  \/ InitialAggregation \/ Cleanup \/ QueryClock \/ Query \/ Export \/ Statistics

QuerySpec == QueryInit /\ [][QueryNext]_vars

----------------------------------------------------------------------------
(* The messages as they come off the wire.  A text is the sequence of its
   lexemes: the punctuation of JSON, the literals null, true and false,
   numbers, strings, and a word for anything that is none of these.  The
   texts of the model hold no arrays. *)

Lex(t) == [t |-> t]
Num(n) == [t |-> "num", n |-> n]
Str(s) == [t |-> "str", s |-> s]

\* JSON.parse throws a SyntaxError
SyntaxError == [ok |-> FALSE]

\* a value has been read, and the lexeme after it is at next
Parsed(kind, value, next) == [ok |-> TRUE, kind |-> kind, value |-> value, next |-> next]

RECURSIVE ParseValue(_, _)
RECURSIVE ParseMembers(_, _, _)

\* the members of an object from the lexeme at i on, after those in members
ParseMembers(text, i, members) ==
  IF i + 1 > Len(text) \/ text[i].t # "str" \/ text[i + 1].t # ":" THEN SyntaxError
  ELSE LET v == ParseValue(text, i + 2)
       IN IF ~v.ok \/ v.next > Len(text) THEN SyntaxError
          ELSE LET all == Spread(members, [k \in {text[i].s} |-> v.value])
               IN IF text[v.next].t = "}" THEN Parsed("object", all, v.next + 1)
                  ELSE IF text[v.next].t = "," THEN ParseMembers(text, v.next + 1, all)
                  ELSE SyntaxError

\* the value that starts at the lexeme at i; null is read as undefined is,
\* which the code does not tell apart from it
ParseValue(text, i) ==
  IF i > Len(text) THEN SyntaxError
  ELSE CASE text[i].t = "num"   -> Parsed("number", text[i].n, i + 1)
         [] text[i].t = "str"   -> Parsed("string", text[i].s, i + 1)
         [] text[i].t = "null"  -> Parsed("null", Undefined, i + 1)
         [] text[i].t = "true"  -> Parsed("boolean", TRUE, i + 1)
         [] text[i].t = "false" -> Parsed("boolean", FALSE, i + 1)
         [] text[i].t = "{"     ->
              IF i + 1 <= Len(text) /\ text[i + 1].t = "}"
                THEN Parsed("object", EmptyObj, i + 2)
                ELSE ParseMembers(text, i + 1, EmptyObj)
         [] OTHER -> SyntaxError

\* JSON.parse(text): one value and nothing after it
JSONParse(text) ==
  LET v == ParseValue(text, 1)
  IN IF v.ok /\ v.next = Len(text) + 1 THEN v ELSE SyntaxError

\* ...payload inside an object literal: null, a number and a boolean spread
\* to nothing
SpreadOf(parsed) == IF parsed.kind = "object" THEN parsed.value ELSE EmptyObj

\* client.on('message') of the MQTT client, from the text of the message.
\* A SyntaxError of JSON.parse is caught and logged; so is the TypeError of
\* payload.systems, or of update.data.operational in the listener, when the
\* payload of a vessel topic is null.  The payload is not a string in the
\* texts of the model.
OnMqttText(st, topic, message, t) ==
  LET parsed == JSONParse(message)
  IN IF ~parsed.ok THEN st
     ELSE IF IsVesselTopic(topic)
       THEN IF parsed.kind = "null" THEN st
            ELSE OnMqttMessage(st, topic, SpreadOf(parsed), t)
     ELSE IF topic[1] = "alerts" THEN OnMqttMessage(st, topic, SpreadOf(parsed), t)
     ELSE OnMqttMessage(st, topic, parsed.value, t)

\* ferryControlWs.on('message'), from the text of the message.  A
\* SyntaxError of JSON.parse is caught and logged; so is the TypeError of
\* message.type when the message is null and of vesselData.vesselId when a
\* vessel_state or a telemetry_update has no data.  Where there is data, it
\* is an object with a vesselId in the texts of the model.
OnWsText(st, data, t) ==
  LET parsed == JSONParse(data)
  IN IF ~parsed.ok THEN st
     ELSE IF parsed.kind = "null" THEN st
     ELSE IF parsed.kind # "object" \/ "type" \notin DOMAIN parsed.value
       THEN [st EXCEPT !.systemStatus.lastUpdate = t]
     ELSE IF /\ parsed.value.type \in {"vessel_state", "telemetry_update", "emergency_alert"}
             /\ "data" \notin DOMAIN parsed.value
       THEN st
     ELSE handleFerryControlMessage(st, parsed.value, t)

\* JSON.stringify of the payloads and messages of the model
MemberText(key, value) == <<Str(key), Lex(":")>> \o value
ObjectText(members) == <<Lex("{")>> \o members \o <<Lex("}")>>

HotEngineText ==
  ObjectText(MemberText("engine", ObjectText(MemberText("temperature", <<Num(106)>>))))
\* a status/systems payload with a hot engine
SystemsText ==
  ObjectText(MemberText("systems",
    ObjectText(MemberText("engine", ObjectText(MemberText("temperature", <<Num(106)>>)))
               \o <<Lex(",")>>
               \o MemberText("power", ObjectText(MemberText("batterySOC", <<Num(50)>>)))
               \o <<Lex(",")>>
               \o MemberText("safety", ObjectText(MemberText("bilgeLevel", <<Num(10)>>))))))
\* a payload that names another vessel than its topic does
MisnamedText ==
  ObjectText(MemberText("vesselId", <<Str(DefaultVesselId)>>) \o <<Lex(",")>>
             \o MemberText("safety", ObjectText(MemberText("bilgeLevel", <<Num(61)>>))))
OverboardText ==
  ObjectText(MemberText("vesselId", <<Str("v1")>>) \o <<Lex(",")>>
             \o MemberText("message", <<Str("Man overboard")>>))
UpdateText ==
  ObjectText(MemberText("type", <<Str("telemetry_update")>>) \o <<Lex(",")>>
             \o MemberText("data",
                  ObjectText(MemberText("vesselId", <<Str("v1")>>) \o <<Lex(",")>>
                             \o MemberText("operational", <<Str("underway")>>))))

\* texts that are not JSON: cut short, a comma before the closing brace, a
\* bare word, and nothing at all
Unparseable ==
  {SubSeq(HotEngineText, 1, Len(HotEngineText) - 1),
   <<Lex("{")>> \o MemberText("engine", <<Num(1)>>) \o <<Lex(","), Lex("}")>>,
   <<Lex("hello")>>,
   <<>>}

\* texts that are JSON, and no object
NotObjects == {<<Lex("null")>>, <<Num(5)>>}

\* a telemetry_update without its data
NoDataText == ObjectText(MemberText("type", <<Str("telemetry_update")>>))

WireTopics ==
  {<<"ferry", "vessel", "v1", "telemetry">>,
   <<"ferry", "vessel", "v1", "status", "systems">>,
   <<"alerts", "emergency">>}

\* what the broker delivers
WireDeliveries ==
  {[topic |-> <<"ferry", "vessel", "v1", "telemetry">>, text |-> text] :
      text \in {HotEngineText, MisnamedText,
                ObjectText(MemberText("safety", ObjectText(<<>>)))}}
  \cup {[topic |-> <<"ferry", "vessel", "v1", "status", "systems">>, text |-> SystemsText]}
  \cup {[topic |-> <<"alerts", "emergency">>, text |-> OverboardText]}
  \cup [topic : WireTopics, text : Unparseable \cup NotObjects]

\* what the socket of ferry control delivers
WireMessages ==
  {UpdateText, ObjectText(MemberText("type", <<Str("pong")>>)), NoDataText}
    \cup Unparseable \cup NotObjects

\* client.on('message') of the MQTT client
WireMqttMessage ==
  \E d \in WireDeliveries :
    /\ Delivered < MaxMessages
    /\ Store(OnMqttText(Ops, d.topic, d.text, now))
    /\ UNCHANGED <<now, registeredAt, requests, lastPrune, store, transport>>

\* ferryControlWs.on('message')
WireWsMessage ==
  \E data \in WireMessages :
    /\ Delivered < MaxMessages
    /\ Store(OnWsText(Ops, data, now))
    /\ UNCHANGED <<now, registeredAt, requests, lastPrune, store, transport>>

WireNext == WireMqttMessage \/ WireWsMessage \/ Tick

WireSpec == Init /\ [][WireNext]_vars

----------------------------------------------------------------------------
(* Properties *)

\* the groups whose fields a fragment carries
TelemetryGroups == {"engine", "power", "navigation", "location", "safety"}

\* the top-level fields of an object that are neither groups nor derived
DataFields(o) == (DOMAIN o) \ (NestedGroups \cup DerivedFields)

\* the fields of group g of an object, none when it has no such group
GroupFields(o, g) == DOMAIN ObjSpread(Group(o, g))

\* the last call of updateVesselData
LastApplied == applied[Len(applied)]

\* the calls of updateVesselData for vessel v, as indices of the history
AppliedTo(v) == {i \in 1..Len(applied) : applied[i].vesselData.vesselId = v}

\* C1: a fragment leaves every field it does not mention as it was: the
\* top-level data fields and whole groups it does not carry, and inside each of
\* engine, power, navigation, location and safety the fields it does not
\* carry, keep the value they had before the apply, and no such field appears.
\* (lastSeen, status and operationalState are derived anew by every apply.)
C1_UnmentionedFieldsKept ==
  applied # <<>> =>
    LET vesselData == LastApplied.vesselData
        before     == LastApplied.before
        after      == fleet[vesselData.vesselId]
    IN /\ (DOMAIN after) \ (DOMAIN vesselData \cup DerivedFields)
            = (DOMAIN before) \ (DOMAIN vesselData \cup DerivedFields)
       /\ \A k \in (DOMAIN before) \ (DOMAIN vesselData \cup DerivedFields) :
            after[k] = before[k]
       /\ \A g \in TelemetryGroups :
            /\ GroupFields(after, g) \ GroupFields(vesselData, g)
                 = GroupFields(before, g) \ GroupFields(vesselData, g)
            /\ \A k \in GroupFields(before, g) \ GroupFields(vesselData, g) :
                 after[g][k] = before[g][k]

\* the example of the specification: rpm 1900 survives the battery fragment
C1_Witness ==
  /\ Len(applied) = 2
  /\ applied[1].vesselData = Spread([vesselId |-> "v1"], ExRpm)
  /\ applied[2].vesselData = Spread([vesselId |-> "v1"], ExBattery)
  /\ fleet["v1"].engine.rpm = 1900
  /\ fleet["v1"].power.batterySOC = 10

\* C2: last writer wins by arrival: every field a fragment carried, top-level
\* or inside a group, holds in the fleet map the value of the last applied
\* fragment of that vessel that carried it, whichever transport brought it and
\* whatever timestamp the fragments embed.
C2_LastWriterWins ==
  \A i \in 1..Len(applied) :
    LET vesselData == applied[i].vesselData
        v          == vesselData.vesselId
        later      == {j \in AppliedTo(v) : j > i}
    IN /\ \A k \in DataFields(vesselData) :
            (\A j \in later : k \notin DOMAIN applied[j].vesselData)
              => k \in DOMAIN fleet[v] /\ fleet[v][k] = vesselData[k]
       /\ \A g \in TelemetryGroups : \A k \in GroupFields(vesselData, g) :
            (\A j \in later : k \notin GroupFields(applied[j].vesselData, g))
              => HasField(fleet[v], g, k) /\ fleet[v][g][k] = vesselData[g][k]

\* a fragment that arrives later over the other transport, with an older
\* embedded timestamp, has overwritten the rpm of the earlier one
C2_Witness ==
  /\ Len(applied) = 2
  /\ applied[1].adapter = "ws" /\ applied[2].adapter = "mqtt"
  /\ applied[1].vesselData = Spread([vesselId |-> "v1"], ExRpm)
  /\ applied[2].vesselData = Spread([vesselId |-> "v1"], Limits)
  /\ applied[2].vesselData.timestamp < applied[1].vesselData.timestamp
  /\ fleet["v1"].engine.rpm = 1800

\* the fleet map after the calls of log, one after the other, starting from map
RECURSIVE Replay(_, _)
Replay(map, log) ==
  IF log = <<>> THEN map
  ELSE LET vesselData == Head(log).vesselData
           vesselId   == vesselData.vesselId
       IN Replay(FleetSet(map, vesselId,
                          MergedVessel(ExistingVessel(map, vesselId), vesselData,
                                       Head(log).time)),
                 Tail(log))

\* the fleet map after start-up
InitialFleet == [v \in {DefaultVesselId} |-> initializeDefaultVessel]

\* C3: the merges of both adapters are applied one at a time in arrival order:
\* the fleet map is the result of applying the fragments received so far one
\* after the other, each merge started from the complete result of the one
\* before, and the vessel a vessel_update broadcast carries is the completely
\* merged record.
C3_SerialMerges ==
  /\ fleet = Replay(InitialFleet, applied)
  /\ \A i \in 1..Len(applied) :
       applied[i].before
         = ExistingVessel(Replay(InitialFleet, SubSeq(applied, 1, i - 1)),
                          applied[i].vesselData.vesselId)
  /\ applied # <<>> =>
       lastUpdateSent = [vesselId |-> LastApplied.vesselData.vesselId,
                         vessel   |-> fleet[LastApplied.vesselData.vesselId]]

\* a socket fragment and an MQTT fragment have been merged into one vessel
C3_Witness ==
  /\ Len(applied) = 2
  /\ applied[1].adapter = "mqtt" /\ applied[2].adapter = "ws"
  /\ applied[1].vesselData.vesselId = "v1" /\ applied[2].vesselData.vesselId = "v1"
  /\ HasField(lastUpdateSent.vessel, "power", "batterySOC")
  /\ HasField(lastUpdateSent.vessel, "engine", "temperature")

\* C4: the fleet map holds one entry per vessel id, keyed by the id the entry
\* carries; its ids are the default vessel and the ids of the fragments applied
\* so far, so an id once known stays known; connectedVessels counts them.
C4_OneEntryPerVessel ==
  /\ DOMAIN fleet
       = {DefaultVesselId} \cup {applied[i].vesselData.vesselId : i \in 1..Len(applied)}
  /\ \A v \in DOMAIN fleet : fleet[v].vesselId = v
  /\ systemStatus.connectedVessels = Cardinality(DOMAIN fleet)

\* a new vessel has been created and updated again, next to the default one
C4_Witness ==
  /\ Cardinality(AppliedTo("v1")) = 2
  /\ DOMAIN fleet = {DefaultVesselId, "v1"}

\* C5: a vessel that carries an explicit operational field has it as its
\* operationalState, whatever its engine, location and times are.
C5_ExplicitOperationalWins ==
  \A v \in DOMAIN fleet :
    "operational" \in DOMAIN fleet[v]
      => fleet[v].operationalState = fleet[v].operational

\* the default vessel stays docked, as its operational field says, with a
\* running engine, and a vessel told underway is underway without one
C5_Witness ==
  /\ Len(applied) = 2
  /\ FieldGt(fleet[DefaultVesselId], "engine", "rpm", 0)
  /\ fleet[DefaultVesselId].operationalState = "docked"
  /\ "v1" \in DOMAIN fleet
  /\ "operational" \in DOMAIN fleet["v1"]
  /\ ~ FieldGt(fleet["v1"], "engine", "rpm", 0)
  /\ fleet["v1"].operationalState = "underway"

\* C6 (the claim, which the code does not meet): without an explicit
\* operational field, a merged engine.rpm > 0 gives underway, and otherwise a
\* merged location gives docked.
C6_DerivedFromMergedRecord ==
  \A v \in DOMAIN fleet :
    ~ TruthyString(fleet[v], "operational") =>
      /\ FieldGt(fleet[v], "engine", "rpm", 0) => fleet[v].operationalState = "underway"
      /\ (~ FieldGt(fleet[v], "engine", "rpm", 0) /\ IsObj(Group(fleet[v], "location")))
           => fleet[v].operationalState = "docked"

\* none of the fields the first three rules of the derivation look at
NothingToDeriveFrom(vessel) ==
  /\ ~ TruthyString(vessel, "operational")
  /\ ~ FieldGt(vessel, "engine", "rpm", 0)
  /\ ~ IsObj(Group(vessel, "location"))

\* C7 (the claim, which the code does not meet): a vessel with no explicit
\* operational field, no engine.rpm > 0 and no location is docked after an
\* apply, its lastSeen being the time of that apply.
C7_RecentlySeenIsDocked ==
  \A v \in DOMAIN fleet :
    NothingToDeriveFrom(fleet[v]) => fleet[v].operationalState = "docked"

\* no fragment of v accepted for five minutes, and no explicit operational field
Silent(v) ==
  /\ v \in DOMAIN fleet
  /\ ~ TruthyString(fleet[v], "operational")
  /\ now - fleet[v].lastSeen >= OfflineMinutes

\* C8 (the claim, which the code does not meet): a vessel no fragment was
\* accepted for during five minutes, with no explicit operational field, is
\* eventually reported offline, or heard of again.
C8_SilentVesselGoesOffline ==
  \A v \in VesselIds :
    Silent(v) ~> (~ Silent(v) \/ fleet[v].operationalState = "offline")

\* What keeps a silent vessel as it is, however long the clock runs: a step
\* that applies no fragment (a timer, a weather or alert message, the passing
\* of time) leaves the fleet map, and so every operationalState, unchanged.
OnlyAppliesChangeFleet == [][applied' = applied => fleet' = fleet]_vars

\* the status the first-match table gives for a record
StatusOf(vessel) ==
  IF HasField(vessel, "safety", "fireAlarm") /\ vessel.safety.fireAlarm = TRUE
    THEN "emergency"
  ELSE IF HasField(vessel, "engine", "temperature") /\ vessel.engine.temperature > 100
    THEN "warning"
  ELSE IF HasField(vessel, "power", "batterySOC") /\ vessel.power.batterySOC < 20
    THEN "caution"
  ELSE IF HasField(vessel, "safety", "bilgeLevel") /\ vessel.safety.bilgeLevel > 50
    THEN "caution"
  ELSE "normal"

\* C9 (the claim, which the code does not meet): the stored status is the
\* first match of the table over the merged fields of the vessel.
C9_StatusOfMergedFields ==
  \A v \in DOMAIN fleet : fleet[v].status = StatusOf(fleet[v])

\* the alerts of the last evaluation with this id kind, type and severity
Emitted(kind, type, severity) ==
  {i \in 1..Len(emitted) :
     /\ emitted[i].id[2] = kind
     /\ emitted[i].type = type
     /\ emitted[i].severity = severity}

\* the alerts of the last evaluation with this id kind
EmittedOfKind(kind) == {i \in 1..Len(emitted) : emitted[i].id[2] = kind}

\* 1 for a condition that holds, 0 for one that does not
Bit(condition) == IF condition THEN 1 ELSE 0

\* C10: the alerts an update emits are those of the threshold table over the
\* fields the update carries, one per breached condition and no other:
\* temperature > 95 warning, > 105 critical; rpm > 1800 warning;
\* batterySOC < 25 warning, < 15 critical; bilgeLevel > 40 warning,
\* > 60 critical; fireAlarm true critical, of type emergency.
C10_ThresholdTable ==
  applied # <<>> =>
    LET d    == LastApplied.vesselData
        temp == IF HasField(d, "engine", "temperature") THEN d.engine.temperature ELSE 0
        rpm  == IF HasField(d, "engine", "rpm") THEN d.engine.rpm ELSE 0
        soc  == IF HasField(d, "power", "batterySOC") THEN d.power.batterySOC ELSE 100
        bil  == IF HasField(d, "safety", "bilgeLevel") THEN d.safety.bilgeLevel ELSE 0
        fire == HasField(d, "safety", "fireAlarm") /\ d.safety.fireAlarm = TRUE
    IN /\ Cardinality(EmittedOfKind("engine-temp")) = Bit(temp > 95)
       /\ Cardinality(Emitted("engine-temp", "engine", "critical")) = Bit(temp > 105)
       /\ Cardinality(Emitted("engine-temp", "engine", "warning"))
            = Bit(temp > 95 /\ temp <= 105)
       /\ Cardinality(EmittedOfKind("engine-rpm")) = Bit(rpm > 1800)
       /\ Cardinality(Emitted("engine-rpm", "engine", "warning")) = Bit(rpm > 1800)
       /\ Cardinality(EmittedOfKind("battery-low")) = Bit(soc < 25)
       /\ Cardinality(Emitted("battery-low", "power", "critical")) = Bit(soc < 15)
       /\ Cardinality(Emitted("battery-low", "power", "warning"))
            = Bit(soc < 25 /\ soc >= 15)
       /\ Cardinality(EmittedOfKind("bilge-high")) = Bit(bil > 40)
       /\ Cardinality(Emitted("bilge-high", "safety", "critical")) = Bit(bil > 60)
       /\ Cardinality(Emitted("bilge-high", "safety", "warning"))
            = Bit(bil > 40 /\ bil <= 60)
       /\ Cardinality(EmittedOfKind("fire-alarm")) = Bit(fire)
       /\ Cardinality(Emitted("fire-alarm", "emergency", "critical")) = Bit(fire)
       /\ \A i \in 1..Len(emitted) :
            /\ emitted[i].vesselId = d.vesselId
            /\ emitted[i].id[2] \in {"engine-temp", "engine-rpm", "battery-low",
                                     "bilge-high", "fire-alarm"}

\* an update with three readings past their warning thresholds, and one with
\* every reading on its threshold
C10_Witness ==
  /\ Len(applied) = 2
  /\ applied[1].vesselData = Spread([vesselId |-> "v1"], Limits)
  /\ applied[2].vesselData = Spread([vesselId |-> "v1"], Warnings)
  /\ Len(emitted) = 3
  /\ Len(alerts) = 3

\* C11: an update that carries engine.temperature = t > 95 emits exactly one
\* engine-temperature alert, critical when t > 105 and warning otherwise,
\* whose message holds the reading t.
C11_EngineTemperatureAlert ==
  applied # <<>> =>
    LET d == LastApplied.vesselData
    IN FieldGt(d, "engine", "temperature", 95) =>
         \E i \in 1..Len(emitted) :
           /\ EmittedOfKind("engine-temp") = {i}
           /\ emitted[i].type = "engine"
           /\ emitted[i].severity
                = (IF d.engine.temperature > 105 THEN "critical" ELSE "warning")
           /\ emitted[i].message
                = [text |-> "Engine temperature high", reading |-> d.engine.temperature]

\* the example of the specification: a reading of 106 gives one critical alert
C11_Witness ==
  /\ applied # <<>>
  /\ LastApplied.vesselData = Spread([vesselId |-> "v1"], HotEngine)
  /\ Len(emitted) = 1
  /\ emitted[1].severity = "critical"
  /\ emitted[1].message.reading = 106

\* the conditions of the threshold table, by the kind their alert ids carry
Conditions == {"engine-temp", "engine-rpm", "battery-low", "bilge-high", "fire-alarm"}

\* whether the fields of object o breach the threshold of a condition
Breach(o, kind) ==
  CASE kind = "engine-temp" -> FieldGt(o, "engine", "temperature", 95)
    [] kind = "engine-rpm"  -> FieldGt(o, "engine", "rpm", 1800)
    [] kind = "battery-low" -> FieldLt(o, "power", "batterySOC", 25)
    [] kind = "bilge-high"  -> FieldGt(o, "safety", "bilgeLevel", 40)
    [] kind = "fire-alarm"  -> HasField(o, "safety", "fireAlarm")
                                 /\ o.safety.fireAlarm = TRUE

\* the threshold alerts of the log for a vessel and a condition
LoggedFor(v, kind) ==
  {i \in 1..Len(alerts) :
     Len(alerts[i].id) = 3 /\ alerts[i].id[1] = v /\ alerts[i].id[2] = kind}

\* the applied fragments of a vessel that breach a condition themselves
BreachingFragments(v, kind) ==
  {i \in AppliedTo(v) : Breach(applied[i].vesselData, kind)}

\* C12: alerts are not debounced. Over any sequence of updates, as long as
\* nothing has been trimmed or pruned from the log, the log holds one alert per
\* applied fragment that itself breaches the condition, however often the
\* condition repeats; and the last update has emitted an alert for a condition
\* exactly when its own fragment breaches it, whatever the merged record holds.
C12_NotDebounced ==
  /\ \A v \in VesselIds : \A kind \in Conditions :
       Cardinality(LoggedFor(v, kind)) = Cardinality(BreachingFragments(v, kind))
  /\ applied # <<>> =>
       \A kind \in Conditions :
         Cardinality(EmittedOfKind(kind)) = Bit(Breach(LastApplied.vesselData, kind))

\* the temperature alert has been emitted a second time, and the battery and
\* bilge readings the merged record still holds past their thresholds, which
\* the second fragment does not carry, have not
C12_Witness ==
  /\ Len(applied) = 2
  /\ applied[1].vesselData = Spread([vesselId |-> "v1"], Warnings)
  /\ applied[2].vesselData = Spread([vesselId |-> "v1"], HotEngine)
  /\ Cardinality(LoggedFor("v1", "engine-temp")) = 2
  /\ Breach(fleet["v1"], "battery-low") /\ Breach(fleet["v1"], "bilge-high")
  /\ EmittedOfKind("battery-low") = {} /\ EmittedOfKind("bilge-high") = {}
  /\ Cardinality(LoggedFor("v1", "battery-low")) = 1

\* C13 (the claim, which the code does not meet): no two alerts of the log
\* carry the same id, each emission having got an id of its own.
C13_UniqueIds ==
  \A i, j \in 1..Len(alerts) : i # j => alerts[i].id # alerts[j].id

\* C14 (the claim, which the code does not meet): the alert log never holds
\* more than 100 entries, whichever handler inserted them.
C14_LogWithinCap == Len(alerts) <= AlertCap

\* the entries of a log
Entries(log) == {log[i] : i \in 1..Len(log)}

\* C15 (the claim, which the code does not meet): an update whose trimming
\* drops a critical alert from the log leaves no non-critical alert in it.
C15_TrimKeepsCritical ==
  [][applied' # applied =>
       \A a \in Entries(alerts) \ Entries(alerts') :
         a.severity = "critical" =>
           \A b \in Entries(alerts') : b.severity = "critical"]_vars

\* the entries of the log before the last prune that are critical or younger
\* than 24 hours, as indices
Kept ==
  {i \in 1..Len(lastPrune.before) :
     \/ lastPrune.before[i].severity = "critical"
     \/ lastPrune.time - lastPrune.before[i].timestamp < PruneMinutes}

\* C16: after a run of the hourly prune the log holds exactly the alerts it
\* held before that are critical or less than 24 hours old, in the order they
\* had, and the alert counts are those of the pruned log.
C16_PruneKeepsCriticalAndRecent ==
  IsObj(lastPrune) =>
    LET kept == Kept
    IN /\ Len(lastPrune.after) = Cardinality(kept)
       /\ \A i \in kept :
            lastPrune.after[Cardinality({j \in kept : j <= i})] = lastPrune.before[i]
       /\ alerts = lastPrune.after =>
            /\ systemStatus.totalAlerts = Len(alerts)
            /\ systemStatus.criticalAlerts
                 = Cardinality({i \in 1..Len(alerts) : alerts[i].severity = "critical"})

\* a prune has removed warnings a day old, and has kept a critical alert as
\* old as they, a warning younger than a day and the order of the log
C16_Witness ==
  /\ IsObj(lastPrune)
  /\ alerts = lastPrune.after
  /\ Len(lastPrune.after) < Len(lastPrune.before)
  /\ \E i \in 1..Len(alerts) :
       /\ alerts[i].severity = "critical"
       /\ lastPrune.time - alerts[i].timestamp >= PruneMinutes
  /\ \E i \in 1..Len(alerts) : alerts[i].severity = "warning"
  /\ \E i \in 1..Len(alerts) : alerts[i].timestamp = lastPrune.time

\* the last call of handleDashboardMessage
LastRequest == requests[Len(requests)]

\* the first alert of the log with this id, as a set of at most one index
FirstWithId(id) ==
  {i \in 1..Len(alerts) : alerts[i].id = id /\ \A j \in 1..(i - 1) : alerts[j].id # id}

\* this step handles an acknowledge_alert message of a dashboard
AcknowledgeStep ==
  /\ Len(requests') > Len(requests)
  /\ LastRequest'.message.type = "acknowledge_alert"

\* C17 (the claim, which the code does not meet): acknowledging an alert that
\* is acknowledged already is a no-op: the alert log, acknowledgedAt included,
\* the alert counts and the fleet map stay as they are.
C17_AcknowledgeIdempotent ==
  [][(/\ AcknowledgeStep
      /\ \E i \in FirstWithId(LastRequest'.message.alertId) :
           "acknowledged" \in DOMAIN alerts[i])
       => /\ alerts' = alerts
          /\ systemStatus' = systemStatus
          /\ fleet' = fleet]_vars

\* The part of C17 the code meets: after an acknowledge_alert message for an
\* id of the log, the first alert of that id is acknowledged as of now, the
\* other alerts are as they were and every open dashboard has been told.
AcknowledgeSetsFields ==
  [][AcknowledgeStep =>
       \A i \in FirstWithId(LastRequest'.message.alertId) :
         /\ alerts' = [alerts EXCEPT ![i] = Spread(@, [acknowledged |-> TRUE,
                                                      acknowledgedAt |-> now])]
         /\ \A c \in dashboardClients :
              sent'[c] = Append(sent[c],
                                [type |-> "alert_acknowledged",
                                 data |-> [alertId |-> alerts[i].id,
                                           acknowledgedAt |-> now]])]_vars

\* C18 (the claim, which the code does not meet): an acknowledge_alert message
\* for an id that is not in the log changes neither the alert log nor the
\* fleet map, is broadcast to no other dashboard, and is answered: the
\* dashboard that sent it is sent a message that says so.
C18_UnknownIdReportsNotFound ==
  [][(AcknowledgeStep /\ FirstWithId(LastRequest'.message.alertId) = {})
       => /\ alerts' = alerts
          /\ fleet' = fleet
          /\ \A c \in dashboardClients \ {LastRequest'.client} : sent'[c] = sent[c]
          /\ Len(sent'[LastRequest'.client]) > Len(sent[LastRequest'.client])]_vars

\* The part of C18 the code meets: such a message changes nothing at all.
UnknownIdChangesNothing ==
  [][(AcknowledgeStep /\ FirstWithId(LastRequest'.message.alertId) = {})
       => UNCHANGED <<fleet, alerts, systemStatus, sent, dashboardClients>>]_vars

\* the registered dashboards a broadcast of this state cannot send to
NotOpen == {c \in dashboardClients : readyState[c] # "OPEN"}

\* C19 (the claim, which the code does not meet): when an update is broadcast
\* and the send to a registered dashboard fails, its connection being no
\* longer open, every other registered dashboard is sent the update and the
\* failing one is registered no longer.
C19_FailedSinkRemoved ==
  [][applied' # applied =>
       \A c \in NotOpen :
         /\ \A o \in dashboardClients \ NotOpen :
              sent'[o] # sent[o] /\ sent'[o][Len(sent'[o])].type = "vessel_update"
         /\ c \notin dashboardClients']_vars

\* The part of C19 the code meets: an update reaches every open dashboard,
\* whatever the state of the others, and the apply is completed.
OpenSinksServed ==
  [][applied' # applied =>
       /\ \A o \in dashboardClients \ NotOpen :
            sent'[o][Len(sent'[o])] = [type |-> "vessel_update", data |-> lastUpdateSent']
       /\ lastUpdateSent'.vessel = fleet'[lastUpdateSent'.vesselId]]_vars

\* the messages of one type among those sent to a dashboard
SentOfType(c, types) ==
  LET OfType(m) == m.type \in types
  IN SelectSeq(sent[c], OfType)

\* the conditions the applied fragments after the n-th breach, per fragment
BreachesAfter(n) ==
  {p \in ((n + 1)..Len(applied)) \X Conditions : Breach(applied[p[1]].vesselData, p[2])}

\* C20: the first message a dashboard is sent is the initial_data snapshot of
\* the state at its registration, and there is no second one; a dashboard whose
\* connection is open has then been sent, in order, the vessel_update of every
\* fragment applied since, with the merged record of that apply, a new_alert
\* for every condition these fragments breach, and an alert message for every
\* alert that has entered the log since the snapshot.
C20_SnapshotFirst ==
  \A c \in DOMAIN sent :
    LET n    == registeredAt[c]
        snap == sent[c][1].data
        ups  == SentOfType(c, {"vessel_update"})
    IN /\ sent[c] # <<>>
       /\ sent[c][1].type = "initial_data"
       /\ \A i \in 2..Len(sent[c]) : sent[c][i].type # "initial_data"
       /\ snap.fleet = FleetArray(Replay(InitialFleet, SubSeq(applied, 1, n)))
       /\ snap.alerts = SubSeq(alerts, Len(alerts) - Len(snap.alerts) + 1, Len(alerts))
       /\ readyState[c] = "OPEN" =>
            /\ Len(ups) = Len(applied) - n
            /\ \A k \in 1..Len(ups) :
                 LET v == applied[n + k].vesselData.vesselId
                 IN ups[k].data
                      = [vesselId |-> v,
                         vessel |-> Replay(InitialFleet, SubSeq(applied, 1, n + k))[v]]
            /\ Len(SentOfType(c, {"new_alert"})) = Cardinality(BreachesAfter(n))
            /\ Len(SentOfType(c, {"new_alert", "emergency_alert"}))
                 = Len(alerts) - Len(snap.alerts)

\* a dashboard that connected after the first fragment of v1 got the snapshot
\* with v1 and its alert in it, and then the alert and the update of the second
C20_Witness ==
  \E c \in DOMAIN sent :
    /\ readyState[c] = "OPEN"
    /\ registeredAt[c] = 1
    /\ Len(applied) = 2
    /\ Len(sent[c]) = 4
    /\ "v1" \in DOMAIN sent[c][1].data.fleet
    /\ Len(sent[c][1].data.alerts) = 1
    /\ sent[c][3].type = "new_alert"
    /\ sent[c][4].type = "vessel_update"

----------------------------------------------------------------------------
(* The alert log and the vessel_events table *)

\* the rows of vessel_events that record the alert
EventsOf(alert) ==
  {i \in 1..Len(vesselEvents) :
     /\ vesselEvents[i].event_type = "alert"
     /\ vesselEvents[i].data.alertId = alert.id}

\* C21: every alert in the alert log, a threshold alert or an emergency
\* alert, has a row in vessel_events that records it (the log only loses
\* entries and the table only gains rows in these behaviours)
C21_EveryAlertRecorded ==
  \A i \in 1..Len(alerts) : EventsOf(alerts[i]) # {}

----------------------------------------------------------------------------
(* The data collector and the database *)

\* the step is a run of the callback of the task
RanStep(task) ==
  /\ task \in DOMAIN ran'
  /\ ran'[task] = now
  /\ IF task \in DOMAIN ran THEN ran[task] # now ELSE TRUE

\* the rows a step adds at the end of telemetry
Appended == {i \in 1..Len(telemetry') : i > Len(telemetry)}

\* C22: a run of collectTelemetry keeps the rows there are and appends, for
\* every vessel of the fleet, one row if the vessel was last seen less than
\* thirty seconds ago and none otherwise; the rows carry the second of the run
C22_FreshVesselsSampled ==
  [][RanStep("collect") =>
       /\ Len(telemetry') >= Len(telemetry)
       /\ SubSeq(telemetry', 1, Len(telemetry)) = telemetry
       /\ \A i \in Appended :
            telemetry'[i].timestamp = now /\ telemetry'[i].vessel_id \in DOMAIN fleet
       /\ \A v \in DOMAIN fleet :
            Cardinality({i \in Appended : telemetry'[i].vessel_id = v})
              = IF now - fleet[v].lastSeen < 30 THEN 1 ELSE 0]_vars

\* collectTelemetry has just run with one vessel seen less than thirty seconds
\* ago, which has its row, and one seen exactly thirty seconds ago, which has none
C22_Witness ==
  /\ "collect" \in DOMAIN ran
  /\ ran["collect"] = now
  /\ \E v, w \in DOMAIN fleet :
       /\ now - fleet[v].lastSeen < 30
       /\ \E i \in 1..Len(telemetry) :
            telemetry[i].vessel_id = v /\ telemetry[i].timestamp = now
       /\ now - fleet[w].lastSeen = 30
       /\ \A i \in 1..Len(telemetry) :
            telemetry[i].vessel_id = w => telemetry[i].timestamp < now

\* the key of a row of telemetry_aggregates
BucketKey(row) == <<row.vessel_id, row.metric_name, row.interval_type, row.timestamp>>

\* C23: telemetry_aggregates never holds two rows with the same vessel,
\* metric, interval type and start of the window, however often
\* aggregateData runs for one window
C23_OneBucketPerWindow ==
  \A i, j \in 1..Len(aggregates) :
    BucketKey(aggregates[i]) = BucketKey(aggregates[j]) => i = j

\* The part of C23 the code meets: the rows of a second run for the same
\* window have the min, max, avg and count of the rows of the first.
SameWindowSameValues ==
  \A i, j \in 1..Len(aggregates) :
    BucketKey(aggregates[i]) = BucketKey(aggregates[j])
      => /\ aggregates[i].min_value = aggregates[j].min_value
         /\ aggregates[i].max_value = aggregates[j].max_value
         /\ aggregates[i].avg_value = aggregates[j].avg_value
         /\ aggregates[i].count = aggregates[j].count

\* the length of a window, in seconds
WindowSeconds(intervalType) == IF intervalType = "5min" THEN 5 * 60 ELSE 60 * 60

\* the samples of the vessel, with the metric not NULL, in the window that
\* starts at from
SamplesIn(v, metric, from, intervalType) ==
  {i \in 1..Len(telemetry) :
     /\ telemetry[i].vessel_id = v
     /\ telemetry[i].timestamp >= from
     /\ telemetry[i].timestamp < from + WindowSeconds(intervalType)
     /\ telemetry[i][metric] # Null}

RECURSIVE SampleSum(_, _)
SampleSum(samples, metric) ==
  IF samples = {} THEN 0
  ELSE LET i == CHOOSE k \in samples : TRUE
       IN telemetry[i][metric][1] + SampleSum(samples \ {i}, metric)

\* the window that ended last when the task last ran
LastWindow(task, intervalType) ==
  ((ran[task] \div WindowSeconds(intervalType)) - 1) * WindowSeconds(intervalType)

\* C24: every bucket starts at a multiple of its interval and holds the
\* count, the least, the greatest and the mean of the samples of its vessel
\* in its window whose metric is not NULL, of which there is at least one;
\* and once aggregateData has run for a window, every vessel and metric with
\* such a sample in it has a bucket
C24_BucketOfItsWindow ==
  /\ \A k \in 1..Len(aggregates) :
       LET b       == aggregates[k]
           samples == SamplesIn(b.vessel_id, b.metric_name, b.timestamp, b.interval_type)
           values  == {telemetry[i][b.metric_name][1] : i \in samples}
       IN /\ b.timestamp % WindowSeconds(b.interval_type) = 0
          /\ samples # {}
          /\ b.count = Cardinality(samples)
          /\ b.min_value[1] \in values /\ \A v \in values : b.min_value[1] <= v
          /\ b.max_value[1] \in values /\ \A v \in values : b.max_value[1] >= v
          /\ b.avg_value[1].num * Cardinality(samples)
               = SampleSum(samples, b.metric_name) * b.avg_value[1].den
  /\ \A task \in DOMAIN ran \cap {"5min", "hour", "initial"} :
       \A intervalType \in (IF task = "initial" THEN {"5min", "hour"} ELSE {task}) :
         \A v \in DOMAIN fleet : \A m \in 1..Len(Metrics) :
           SamplesIn(v, Metrics[m], LastWindow(task, intervalType), intervalType) # {}
             => \E k \in 1..Len(aggregates) :
                  BucketKey(aggregates[k])
                    = <<v, Metrics[m], intervalType, LastWindow(task, intervalType)>>

\* aggregateData has run for a window in which a vessel has samples with
\* different values of one metric, whose mean is not a whole number, and
\* samples with another metric NULL, for which there is no bucket
C24_Witness ==
  /\ "5min" \in DOMAIN ran
  /\ \E k \in 1..Len(aggregates) :
       /\ aggregates[k].min_value[1] < aggregates[k].max_value[1]
       /\ aggregates[k].avg_value[1].den > 1
       /\ aggregates[k].count > 2
  /\ \E i \in 1..Len(telemetry) :
       /\ telemetry[i].timestamp < LastWindow("5min", "5min") + WindowSeconds("5min")
       /\ telemetry[i].engine_rpm = Null
       /\ \A k \in 1..Len(aggregates) :
            aggregates[k].vessel_id = telemetry[i].vessel_id
              => aggregates[k].metric_name # "engine_rpm"

----------------------------------------------------------------------------
(* The retention of the tables *)

\* the rows of the table that are at most the given number of seconds old
NotOlderThan(rows, seconds) ==
  SelectSeq(rows, LAMBDA row : now - row.timestamp <= seconds)

----------------------------------------------------------------------------
(* The queries *)

\* the step is the reply to a call of the operation: every other step
\* moves the clock, runs a callback of the collector or applies a message
ReplyStep(op) ==
  /\ UNCHANGED <<now, ran, applied>>
  /\ "op" \in DOMAIN reply'
  /\ reply'.op = op

\* the hours of a range
RangeHours(timeRange) ==
  CASE timeRange = "1h" -> 1 [] timeRange = "6h" -> 6
    [] timeRange = "12h" -> 12 [] timeRange = "24h" -> 24

\* the samples of the vessel less than the given hours old
SamplesWithin(v, hours) ==
  {i \in 1..Len(telemetry) :
     /\ telemetry[i].vessel_id = v
     /\ now - telemetry[i].timestamp < hours * 60 * 60}

\* the 5-minute buckets of the vessel and the metric that start less than
\* the given hours ago
BucketsWithin(v, metric, hours) ==
  {k \in 1..Len(aggregates) :
     /\ aggregates[k].vessel_id = v
     /\ aggregates[k].metric_name = metric
     /\ aggregates[k].interval_type = "5min"
     /\ now - aggregates[k].timestamp < hours * 60 * 60}

\* the points are the given ones, each as often as it is given
SamePoints(points, given) ==
  /\ \A a \in 1..Len(points) : points[a] \in {given[i] : i \in DOMAIN given}
  /\ \A i \in DOMAIN given :
       Cardinality({a \in 1..Len(points) : points[a] = given[i]})
         = Cardinality({j \in DOMAIN given : given[j] = given[i]})

\* C26: the points getHistoricalData resolves with, for a range of 1h, 6h,
\* 12h or 24h, are in ascending order of their timestamps and less than the
\* hours of the range old; for 1h and 6h they are the samples of the vessel
\* in the range whose metric is not NULL, with the value of the metric, and
\* for 12h and 24h the 5-minute buckets of the vessel and the metric in the
\* range, with their avg
C26_QueryPoints ==
  [][ReplyStep("getHistoricalData") /\ reply'.timeRange \in {"1h", "6h", "12h", "24h"} =>
       LET points == reply'.value
           v      == reply'.vesselId
           metric == reply'.metric
           hours  == RangeHours(reply'.timeRange)
           raw    == {i \in SamplesWithin(v, hours) : telemetry[i][metric] # Null}
       IN /\ \A a, b \in 1..Len(points) :
               a < b => points[a].timestamp <= points[b].timestamp
          /\ \A a \in 1..Len(points) :
               /\ now - points[a].timestamp < hours * 60 * 60
               /\ points[a].timestamp <= now
          /\ IF hours <= 6
               THEN SamePoints(points,
                               [i \in raw |-> [timestamp |-> telemetry[i].timestamp,
                                               value |-> Ratio(telemetry[i][metric][1], 1)]])
               ELSE SamePoints(points,
                               [k \in BucketsWithin(v, metric, hours) |->
                                  [timestamp |-> aggregates[k].timestamp,
                                   value |-> aggregates[k].avg_value[1]]])]_vars

\* the reply to a query for six hours has several points, while the vessel
\* has samples in these six hours whose metric is NULL and a sample
\* of exactly six hours ago
C26_Witness ==
  /\ "op" \in DOMAIN reply
  /\ reply.op = "getHistoricalData"
  /\ reply.timeRange = "6h"
  /\ Len(reply.value) > 2
  /\ reply.value[1].timestamp < reply.value[Len(reply.value)].timestamp
  /\ \E i \in SamplesWithin(reply.vesselId, 6) : telemetry[i][reply.metric] = Null
  /\ reply.time = now
  /\ \E i \in 1..Len(telemetry) :
       /\ telemetry[i].vessel_id = reply.vesselId
       /\ now - telemetry[i].timestamp = 6 * 60 * 60

\* text.split(separator): the pieces between the separators, of which the
\* empty text has one, the empty piece
Split(text, separator) ==
  LET at     == {k \in 1..Len(text) : text[k] = separator}
      Cut(n) == IF n = 0 THEN 0
                ELSE IF n = Cardinality(at) + 1 THEN Len(text) + 1
                ELSE CHOOSE k \in at : Cardinality({j \in at : j < k}) = n - 1
  IN [n \in 1..(Cardinality(at) + 1) |-> SubSeq(text, Cut(n - 1) + 1, Cut(n) - 1)]

\* a CSV text read back: its first line is the header, the others are the
\* rows, and the fields of a line are the pieces between its commas
ParseCSV(text) ==
  LET lines == Split(text, "\n")
  IN [header |-> Split(lines[1], ","),
      rows   |-> [k \in 1..(Len(lines) - 1) |-> Split(lines[k + 1], ",")]]

\* the ids of the rows of a CSV text of telemetry
ExportedIds(text) ==
  LET csv == ParseCSV(text)
  IN {csv.rows[k][1] : k \in 1..Len(csv.rows)}

\* what exportToCSV and getStatistics reply for the range is taken from the
\* samples of the vessel less than the hours of the range old, from all of
\* these and from no other
OfRequestedRange(answer) ==
  LET samples == SamplesWithin(answer.vesselId, RangeHours(answer.timeRange))
  IN IF answer.op = "exportToCSV"
       THEN /\ ExportedIds(answer.value) = {<<ToString(telemetry[i].id)>> : i \in samples}
            /\ Len(ParseCSV(answer.value).rows) = Cardinality(samples)
       ELSE answer.value.count
              = Cardinality({i \in samples : telemetry[i][answer.metric] # Null})

\* C27: for each of the ranges 1h, 6h, 12h and 24h, exportToCSV writes the
\* samples of the vessel that lie in the requested range, all of them and no
\* other, and getStatistics counts the samples in the requested range whose
\* metric is not NULL, all of them and no other
C27_RowsOfRequestedRange ==
  [][(ReplyStep("exportToCSV") \/ ReplyStep("getStatistics"))
       /\ reply'.timeRange \in {"1h", "6h", "12h", "24h"}
     => OfRequestedRange(reply')]_vars

\* The part of C27 the code meets: the ranges exportToCSV and getStatistics
\* know, 1h, 12h and 24h for the one and 1h and 24h for the other.
KnownRangeRows ==
  [][\/ ReplyStep("exportToCSV") /\ reply'.timeRange \in {"1h", "12h", "24h"}
     \/ ReplyStep("getStatistics") /\ reply'.timeRange \in {"1h", "24h"}
     => OfRequestedRange(reply')]_vars

\* the columns a sample may hold NULL in
NullableColumns ==
  {c \in 1..Len(TelemetryColumns) :
     TelemetryColumns[c] \notin {"id", "vessel_id", "timestamp", "created_at"}}

\* the CSV text, read back, has a header of as many columns as the table
\* telemetry and one row for every sample of the vessel in the range, in
\* which a field is empty exactly where the sample holds NULL
RoundTrip(answer) ==
  LET csv     == ParseCSV(answer.value)
      samples == SamplesWithin(answer.vesselId, RangeHours(answer.timeRange))
  IN /\ Len(csv.header) = Len(TelemetryColumns)
     /\ Len(csv.rows) = Cardinality(samples)
     /\ \A i \in samples :
          \E k \in 1..Len(csv.rows) :
            /\ Len(csv.rows[k]) = Len(TelemetryColumns)
            /\ csv.rows[k][1] = <<ToString(telemetry[i].id)>>
            /\ \A c \in NullableColumns :
                 (csv.rows[k][c] = <<>>) <=> (telemetry[i][TelemetryColumns[c]] = Null)

\* C28: the text exportToCSV resolves with, read back, has a header of as
\* many columns as the table telemetry has and as many rows as the vessel
\* has samples in the range, be it none, with an empty field for every
\* NULL (for the ranges exportToCSV knows: 1h, 12h and 24h)
C28_ExportRoundTrip ==
  [][ReplyStep("exportToCSV") /\ reply'.timeRange \in {"1h", "12h", "24h"}
     => RoundTrip(reply')]_vars

\* The part of C28 the code meets: the export of a range with a sample in it.
ExportOfSamplesRoundTrip ==
  [][/\ ReplyStep("exportToCSV")
     /\ reply'.timeRange \in {"1h", "12h", "24h"}
     /\ SamplesWithin(reply'.vesselId, RangeHours(reply'.timeRange)) # {}
     => RoundTrip(reply')]_vars

\* an export of samples with NULLs has been read back
ExportOfSamplesSeen ==
  /\ "op" \in DOMAIN reply
  /\ reply.op = "exportToCSV"
  /\ reply.timeRange = "12h"
  /\ Len(ParseCSV(reply.value).rows) > 6
  /\ \E k \in 1..Len(ParseCSV(reply.value).rows) : ParseCSV(reply.value).rows[k][7] = <<>>
  /\ \E k \in 1..Len(ParseCSV(reply.value).rows) : ParseCSV(reply.value).rows[k][7] # <<>>

\* no sample of the vessel in the range holds the metric
NoneMatching(answer) ==
  \A i \in SamplesWithin(answer.vesselId, RangeHours(answer.timeRange)) :
    telemetry[i][answer.metric] = Null

\* C29: getStatistics resolves with { min: 0, max: 0, avg: 0, count: 0 } when
\* no sample of the vessel in the range holds the metric, and also when
\* db.get fails (for the ranges getStatistics knows: 1h and 24h)
C29_ZeroedStatistics ==
  [][\/ /\ ReplyStep("getStatistics")
        /\ reply'.timeRange \in {"1h", "24h"}
        /\ NoneMatching(reply')
     \/ ReplyStep("getStatistics, db.get fails")
     => reply'.value = ZeroStatistics]_vars

\* The part of C29 the code meets: the record after an error of db.get.
StorageErrorZeroed ==
  [][ReplyStep("getStatistics, db.get fails") => reply'.value = ZeroStatistics]_vars

\* the count is zero whenever nothing matches
NoneMatchingCountsZero ==
  [][/\ ReplyStep("getStatistics")
     /\ reply'.timeRange \in {"1h", "24h"}
     /\ NoneMatching(reply')
     => reply'.value.count = 0]_vars

----------------------------------------------------------------------------
(* The payloads that are not what the transports expect *)

\* the well-formed messages of the two transports
WellFormedDeliveries == {d \in WireDeliveries : d.text \notin Unparseable \cup NotObjects}
WellFormedMessages == WireMessages \ (Unparseable \cup NotObjects \cup {NoDataText})

\* handling the text on the topic leaves the fleet map and the alert log as
\* they are, and whatever well-formed message comes next leaves them as it
\* would have left them without it
DroppedByMqtt(topic, text) ==
  LET st == OnMqttText(Ops, topic, text, now)
  IN /\ st.fleet = fleet
     /\ st.alerts = alerts
     /\ \A d \in WellFormedDeliveries :
          /\ OnMqttText(st, d.topic, d.text, now).fleet
               = OnMqttText(Ops, d.topic, d.text, now).fleet
          /\ OnMqttText(st, d.topic, d.text, now).alerts
               = OnMqttText(Ops, d.topic, d.text, now).alerts

\* the same for the socket of ferry control
DroppedByWs(text) ==
  LET st == OnWsText(Ops, text, now)
  IN /\ st.fleet = fleet
     /\ st.alerts = alerts
     /\ \A data \in WellFormedMessages :
          /\ OnWsText(st, data, now).fleet = OnWsText(Ops, data, now).fleet
          /\ OnWsText(st, data, now).alerts = OnWsText(Ops, data, now).alerts

\* C30: whenever it arrives, a payload that is not JSON, or that is JSON and
\* not an object, or a message without its data, is dropped on either
\* transport: the fleet map and the alert log stay as they are, and the
\* well-formed message after it is handled as it would have been
C30_MalformedDropped ==
  /\ \A topic \in WireTopics : \A text \in Unparseable \cup NotObjects :
       DroppedByMqtt(topic, text)
  /\ \A text \in Unparseable \cup NotObjects \cup {NoDataText} : DroppedByWs(text)

\* The part of C30 the code meets: a text that is not JSON changes nothing
\* at all on either transport, and the socket of ferry control drops what is
\* not an object and what has no data.
UnparseableDropped ==
  /\ \A topic \in WireTopics : \A text \in Unparseable :
       OnMqttText(Ops, topic, text, now) = Ops
  /\ \A text \in Unparseable : OnWsText(Ops, text, now) = Ops
  /\ \A text \in Unparseable \cup NotObjects \cup {NoDataText} : DroppedByWs(text)

\* the texts of the model are read as the payloads they are written from
TextsRead ==
  /\ JSONParse(HotEngineText) = Parsed("object", HotEngine, Len(HotEngineText) + 1)
  /\ JSONParse(UpdateText).value
       = [type |-> "telemetry_update", data |-> Spread([vesselId |-> "v1"], Underway)]
  /\ \A text \in Unparseable : JSONParse(text) = SyntaxError
  /\ \A text \in NotObjects : JSONParse(text).ok

----------------------------------------------------------------------------
(* The order of the alert log *)

NewestArrivalFirst ==
  \A i, j \in 1..Len(alerts) :
    i < j => alerts[i].id[Len(alerts[i].id)] >= alerts[j].id[Len(alerts[j].id)]

InsertedAtHead ==
  [][Len(alerts') > Len(alerts)
       => SubSeq(alerts', Len(alerts') - Len(alerts) + 1, Len(alerts')) = alerts]_vars

----------------------------------------------------------------------------
(* The counters of the alert log *)

\* the entries of the log that are critical
CriticalEntries == {i \in 1..Len(alerts) : alerts[i].severity = "critical"}

\* the ids a dashboard may acknowledge: the newest and the oldest entry of
\* the log, and one that no entry has
Acknowledgeable ==
  {<<"v1", "no-such-alert", 0>>}
    \cup (IF alerts = <<>> THEN {} ELSE {alerts[1].id, alerts[Len(alerts)].id})

\* C36: whatever has changed the alert log, the cut to a hundred entries
\* after new threshold alerts, an emergency alert or the hourly prune,
\* totalAlerts is the length of the log and criticalAlerts the number of its
\* critical entries; and acknowledging an alert changes neither counter
C36_CountsMatchLog ==
  /\ systemStatus.totalAlerts = Len(alerts)
  /\ systemStatus.criticalAlerts = Cardinality(CriticalEntries)
  /\ \A id \in Acknowledgeable :
       LET st == acknowledgeAlert(Ops, id, now)
       IN /\ st.systemStatus.totalAlerts = systemStatus.totalAlerts
          /\ st.systemStatus.criticalAlerts = systemStatus.criticalAlerts
          /\ Len(st.alerts) = Len(alerts)

\* the log has been cut to a hundred entries, so that the alert of minute 0
\* is gone, an emergency alert has been put in, and the hourly prune has
\* removed entries; the log holds critical entries and others
C36_Witness ==
  /\ lastPrune # Undefined
  /\ Len(lastPrune.after) < Len(lastPrune.before)
  /\ \A i \in 1..Len(lastPrune.before) : lastPrune.before[i].timestamp > 0
  /\ Emergencies(alerts) # {}
  /\ applied # <<>>
  /\ CriticalEntries # {}
  /\ Cardinality(CriticalEntries) < Len(alerts)

----------------------------------------------------------------------------
(* The fragments of the MQTT transport *)

\* the step applies a fragment of the MQTT transport
MqttApplied ==
  /\ Len(applied') = Len(applied) + 1
  /\ applied'[Len(applied')].adapter = "mqtt"

\* the groups a status/systems payload nests under systems
SystemsGroups == {"engine", "power", "safety"}

\* C34: the fragment of a status/systems message (the only messages with a
\* group systems in these behaviours) has the groups engine, power and
\* safety of systems at its top level; once it is applied the state of the
\* vessel carries every field of theirs, and the alerts emitted are those of
\* the thresholds evaluated on them
C34_SystemsFlattened ==
  [][MqttApplied /\ "systems" \in DOMAIN applied'[Len(applied')].vesselData =>
       LET fragment == applied'[Len(applied')].vesselData
           v        == fragment.vesselId
           systems  == fragment.systems
       IN /\ \A g \in SystemsGroups : g \in DOMAIN fragment /\ fragment[g] = systems[g]
          /\ \A g \in SystemsGroups : \A k \in DOMAIN systems[g] :
               HasField(fleet'[v], g, k) /\ fleet'[v][g][k] = systems[g][k]
          /\ emitted' = NewAlerts([vesselId |-> v, engine |-> systems.engine,
                                   power |-> systems.power, safety |-> systems.safety],
                                  now)
          /\ \A i \in 1..Len(emitted') : \E j \in 1..Len(alerts') : alerts'[j] = emitted'[i]]_vars

\* a status/systems message with a hot engine has just been applied: the
\* vessel has the temperature in its group engine and the log a critical alert
C34_Witness ==
  /\ applied # <<>>
  /\ applied[Len(applied)].adapter = "mqtt"
  /\ "systems" \in DOMAIN applied[Len(applied)].vesselData
  /\ applied[Len(applied)].vesselData.systems.engine.temperature = 106
  /\ fleet["v1"].engine.temperature = 106
  /\ fleet["v1"].power.batterySOC = 50
  /\ emitted # <<>>
  /\ alerts[1].id = <<"v1", "engine-temp", now>>
  /\ alerts[1].severity = "critical"

\* the vessel the topic of a delivery names
TopicVessel(d) == Part(d.topic, 3)

\* C35: whatever its payload holds, a message on a topic ferry/vessel/A/...
\* changes the entry of vessel A alone: handling any delivery of the broker
\* on such a topic, in any reachable state, leaves the entry of every other
\* vessel as it is and adds no other vessel to the fleet map
C35_OnlyTheVesselOfTheTopic ==
  \A d \in WireDeliveries :
    IsVesselTopic(d.topic) =>
      LET st == OnMqttText(Ops, d.topic, d.text, now)
      IN /\ \A v \in DOMAIN fleet \ {TopicVessel(d)} : st.fleet[v] = fleet[v]
         /\ DOMAIN st.fleet \subseteq DOMAIN fleet \cup {TopicVessel(d)}

\* The part of C35 the code meets: a message whose payload names no vessel.
UnnamedPayloadsKeepToTheirTopic ==
  \A d \in WireDeliveries :
    IsVesselTopic(d.topic) /\ d.text # MisnamedText =>
      LET st == OnMqttText(Ops, d.topic, d.text, now)
      IN /\ \A v \in DOMAIN fleet \ {TopicVessel(d)} : st.fleet[v] = fleet[v]
         /\ DOMAIN st.fleet \subseteq DOMAIN fleet \cup {TopicVessel(d)}

----------------------------------------------------------------------------
(* The values of the samples *)

\* the columns of a sample that hold a number of one group of the state
MetricFields ==
  {[column |-> "engine_rpm",     group |-> "engine", field |-> "rpm"],
   [column |-> "engine_temp",    group |-> "engine", field |-> "temperature"],
   [column |-> "fuel_flow",      group |-> "engine", field |-> "fuelFlow"],
   [column |-> "battery_soc",    group |-> "power",  field |-> "batterySOC"],
   [column |-> "voltage",        group |-> "power",  field |-> "voltage"],
   [column |-> "generator_load", group |-> "power",  field |-> "generatorLoad"],
   [column |-> "speed",          group |-> "navigation", field |-> "speed"],
   [column |-> "bilge_level",    group |-> "safety", field |-> "bilgeLevel"],
   [column |-> "co2_level",      group |-> "safety", field |-> "co2Level"]}

\* the row holds the number the state of the vessel carries for the column
SameValue(row, vessel, m) ==
  row[m.column] = <<vessel[m.group][m.field]>>

\* C38: every row collectTelemetry appends holds, for each metric the state
\* of its vessel carries, the number the state carries, be it 0, and NULL
\* for each metric the state does not carry (speed, which may also come
\* from the group location, is NULL only if the state carries none)
C38_ZeroIsStored ==
  [][RanStep("collect") =>
       \A i \in Appended : \A m \in MetricFields :
         LET vessel == fleet[telemetry'[i].vessel_id]
         IN IF HasField(vessel, m.group, m.field)
              THEN SameValue(telemetry'[i], vessel, m)
              ELSE m.column # "speed" => telemetry'[i][m.column] = Null]_vars

\* The part of C38 the code meets: a number other than 0 is stored as it is,
\* and a metric the state does not carry is stored as NULL.
NonZeroIsStored ==
  [][RanStep("collect") =>
       \A i \in Appended : \A m \in MetricFields :
         LET vessel == fleet[telemetry'[i].vessel_id]
         IN IF HasField(vessel, m.group, m.field)
              THEN vessel[m.group][m.field] # 0 => SameValue(telemetry'[i], vessel, m)
              ELSE m.column # "speed" => telemetry'[i][m.column] = Null]_vars

----------------------------------------------------------------------------
(* The runs of aggregateData *)

\* C39: the run of aggregateData one minute after the start and the runs
\* cron starts never aggregate the same window of the same interval type
C39_NoWindowTwice ==
  \A intervalType \in {"5min", "hour"} :
    {intervalType, "initial"} \subseteq DOMAIN ran
      => LastWindow(intervalType, intervalType) # LastWindow("initial", intervalType)

----------------------------------------------------------------------------
(* The collector after stop() *)

\* C40: once stop() has returned, no callback of the collector runs: no
\* collectTelemetry, no aggregateData and no cleanupOldData
C40_NothingAfterStop ==
  []["stop" \in DOMAIN ran => \A task \in Tasks : ~RanStep(task)]_vars

\* The part of C40 the code meets: the interval and the tasks of cron.
NoTimerOrCronAfterStop ==
  []["stop" \in DOMAIN ran => \A task \in Tasks \ {"initial"} : ~RanStep(task)]_vars

\* the collector has been stopped while a timer of its interval was due
StoppedWhileDue ==
  /\ "stop" \in DOMAIN ran
  /\ ran["stop"] = now
  /\ Due("collect", now) /\ Due("5min", now)
  /\ "5min" \notin DOMAIN ran

----------------------------------------------------------------------------
(* The upstream connections.  A WebSocket of the ws package raises 'open', *)
(* 'error' followed by 'close' when the connection fails, and 'close'      *)
(* alone when an open connection ends; the client of the mqtt package      *)
(* raises 'connect', 'close', 'error', and 'reconnect' reconnectPeriod     *)
(* after a close.  The clock is in seconds.                                *)

\* setTimeout(connectToFerryControl, 5000) of the listener of 'close'
CloseRetrySeconds == 5
\* setTimeout(connectToFerryControl, 10000) of the listener of 'error'
ErrorRetrySeconds == 10
\* reconnectPeriod: 5000
reconnectPeriod == 5
\* the last second of the clock of these behaviours
LinkMaxTime == 10
\* the WebSockets connectToFerryControl makes in one behaviour
MaxSockets == 3

\* the server: opsState and the upstream connections
Server == [ops |-> Ops, transport |-> transport]

StoreServer(sv) == Store(sv.ops) /\ transport' = sv.transport

\* setTimeout(connectToFerryControl, delay)
RetryIn(sv, delay, t) == [sv EXCEPT !.transport.timers = Append(@, t + delay)]

\* connectToFerryControl(): ferryControlWs is the last of the sockets; when
\* new WebSocket throws, the catch arms a retry
connectToFerryControl(sv, constructed, t) ==
  IF constructed THEN [sv EXCEPT !.transport.sockets = Append(@, "CONNECTING")]
  ELSE RetryIn(sv, ErrorRetrySeconds, t)

\* ferryControlWs.on('open')
OnWsOpen(sv) ==
  LET st == [sv.ops EXCEPT !.systemStatus.monitoring = TRUE]
  IN [sv EXCEPT !.ops = broadcastToClients(st, [type |-> "system_status",
                                                data |-> st.systemStatus])]

\* ferryControlWs.on('close')
OnWsClose(sv, t) ==
  RetryIn([sv EXCEPT !.ops.systemStatus.monitoring = FALSE], CloseRetrySeconds, t)

\* ferryControlWs.on('error')
OnWsError(sv, t) ==
  RetryIn([sv EXCEPT !.ops.systemStatus.monitoring = FALSE], ErrorRetrySeconds, t)

\* client.on('connect') of the MQTT client, which emits 'connected', and the
\* listener of 'connected' of the server
OnMqttConnect(sv) ==
  LET st == [sv.ops EXCEPT !.systemStatus.monitoring = TRUE]
      told == broadcastToClients(st, [type |-> "mqtt_status",
                                      data |-> [connected |-> TRUE]])
  IN [sv EXCEPT !.transport.connected = TRUE,
                !.ops = broadcastToClients(told, [type |-> "system_status",
                                                  data |-> st.systemStatus])]

\* client.on('close') of the MQTT client, which emits 'disconnected', and the
\* listener of 'disconnected' of the server
OnMqttClose(sv) ==
  LET st == [sv.ops EXCEPT !.systemStatus.monitoring = FALSE]
  IN [sv EXCEPT !.transport.connected = FALSE,
                !.ops = broadcastToClients(st, [type |-> "mqtt_status",
                                                data |-> [connected |-> FALSE]])]

\* client.on('error') of the MQTT client, which emits 'error': the server has
\* no listener of 'error' on mqttClient, so emit throws err out of the
\* listener, and nothing catches it
OnMqttError(sv) ==
  [sv EXCEPT !.transport.connected = FALSE, !.transport.crashed = TRUE]

\* the sockets that are connecting or open
Live(tr) == {i \in 1..Len(tr.sockets) : tr.sockets[i] \in {"CONNECTING", "OPEN"}}

\* the sequence without its i-th element
Without(seq, i) == SubSeq(seq, 1, i - 1) \o SubSeq(seq, i + 1, Len(seq))

\* mqttClient.connect() and connectToFerryControl() at start-up, and one
\* dashboard connected
LinkInit ==
  /\ fleet = [v \in {DefaultVesselId} |-> initializeDefaultVessel]
  /\ alerts = <<>>
  /\ systemStatus = [monitoring |-> TRUE, lastUpdate |-> 0, connectedVessels |-> 1,
                     totalAlerts |-> 0, criticalAlerts |-> 0]
  /\ weatherData = [conditions |-> "Partly Cloudy", windSpeed |-> 15]
  /\ vesselEvents = <<>>
  /\ now = 0
  /\ applied = <<>>
  /\ emitted = <<>>
  /\ lastUpdateSent = Undefined
  /\ dashboardClients = {"c1"}
  /\ readyState = [c \in {"c1"} |-> "OPEN"]
  /\ sent = [c \in {"c1"} |-> <<>>]
  /\ registeredAt = [c \in {"c1"} |-> 0]
  /\ requests = <<>>
  /\ lastPrune = Undefined
  /\ EmptyStore
  /\ transport = [Unconnected EXCEPT !.sockets = <<"CONNECTING">>,
                                     !.client = "connecting"]

\* a timer of setTimeout(connectToFerryControl, ...) fires
ConnectToFerryControl ==
  \E i \in 1..Len(transport.timers), constructed \in BOOLEAN :
    /\ ~transport.crashed
    /\ transport.timers[i] = now
    /\ Len(transport.sockets) < MaxSockets
    /\ StoreServer(connectToFerryControl(
         [Server EXCEPT !.transport.timers = Without(@, i)], constructed, now))
    /\ UNCHANGED <<now, registeredAt, requests, lastPrune, store>>

\* a socket raises 'open'
WsOpen ==
  \E i \in 1..Len(transport.sockets) :
    /\ ~transport.crashed
    /\ transport.sockets[i] = "CONNECTING"
    /\ StoreServer(OnWsOpen([Server EXCEPT !.transport.sockets[i] = "OPEN"]))
    /\ UNCHANGED <<now, registeredAt, requests, lastPrune, store>>

\* a socket raises 'error': its 'close' is still to come
WsError ==
  \E i \in Live(transport) :
    /\ ~transport.crashed
    /\ StoreServer(OnWsError([Server EXCEPT !.transport.sockets[i] = "CLOSING"], now))
    /\ UNCHANGED <<now, registeredAt, requests, lastPrune, store>>

\* a socket raises 'close': after its 'error', or when an open connection ends
WsClose ==
  \E i \in 1..Len(transport.sockets) :
    /\ ~transport.crashed
    /\ transport.sockets[i] \in {"OPEN", "CLOSING"}
    /\ StoreServer(OnWsClose([Server EXCEPT !.transport.sockets[i] = "CLOSED"], now))
    /\ UNCHANGED <<now, registeredAt, requests, lastPrune, store>>

\* the MQTT client raises 'connect'
MqttConnect ==
  /\ ~transport.crashed
  /\ transport.client = "connecting"
  /\ StoreServer(OnMqttConnect([Server EXCEPT !.transport.client = "connected"]))
  /\ UNCHANGED <<now, registeredAt, requests, lastPrune, store>>

\* the MQTT client raises 'close', and the package arms its reconnect
MqttClose ==
  /\ ~transport.crashed
  /\ transport.client \in {"connecting", "connected"}
  /\ StoreServer(OnMqttClose(
       [Server EXCEPT !.transport.client = "closed",
                      !.transport.reconnectTimer = <<now + reconnectPeriod>>]))
  /\ UNCHANGED <<now, registeredAt, requests, lastPrune, store>>

\* the MQTT client raises 'reconnect': 'reconnecting' has no listener
MqttReconnect ==
  /\ ~transport.crashed
  /\ transport.reconnectTimer = <<now>>
  /\ transport' = [transport EXCEPT !.client = "connecting", !.reconnectTimer = <<>>]
  /\ UNCHANGED <<fleet, alerts, systemStatus, weatherData, vesselEvents, now,
                 applied, emitted, lastUpdateSent, hub, lastPrune, store>>

\* the MQTT client raises 'error'
MqttError ==
  /\ ~transport.crashed
  /\ transport.client \in {"connecting", "connected"}
  /\ StoreServer(OnMqttError(Server))
  /\ UNCHANGED <<now, registeredAt, requests, lastPrune, store>>

\* the clock reaches the next second a timer can be due at, once the timers
\* due now have fired
LinkTick ==
  /\ ~transport.crashed
  /\ \A i \in 1..Len(transport.timers) : transport.timers[i] > now
  /\ transport.reconnectTimer # <<now>>
  /\ now + CloseRetrySeconds <= LinkMaxTime
  /\ now' = now + CloseRetrySeconds
  /\ UNCHANGED <<fleet, alerts, systemStatus, weatherData, vesselEvents,
                 applied, emitted, lastUpdateSent, hub, lastPrune, store, transport>>

LinkNext ==
  \/ ConnectToFerryControl \/ WsOpen \/ WsError \/ WsClose
  \/ MqttConnect \/ MqttClose \/ MqttReconnect \/ MqttError \/ LinkTick

LinkSpec == LinkInit /\ [][LinkNext]_vars

----------------------------------------------------------------------------
(* One upstream connection at a time *)

RetryArmed ==
  /\ Live(transport) = {} => transport.timers # <<>>
  /\ \A i \in 1..Len(transport.timers) : transport.timers[i] <= now + ErrorRetrySeconds

----------------------------------------------------------------------------
(* Losing a connection *)

\* C32: a step in which a connection is lost (a socket closes or fails, the
\* MQTT client closes or fails) neither ends the process nor changes the
\* fleet map
C32_LossIsSurvived ==
  [][transport' # transport => (~transport'.crashed /\ fleet' = fleet)]_vars

\* the MQTT client that lost its connection has the reconnect of the package
\* armed, due within reconnectPeriod
MqttRetryArmed ==
  transport.client = "closed"
    => /\ transport.reconnectTimer # <<>>
       /\ transport.reconnectTimer[1] <= now + reconnectPeriod

\* the losses of the socket transport alone leave the process running and the
\* fleet map as it is
SocketLossIsSurvived ==
  [][(transport'.sockets # transport.sockets /\ transport'.client = transport.client)
       => (~transport'.crashed /\ fleet' = fleet)]_vars

----------------------------------------------------------------------------
(* The first minute of the process with a storage that fails.  Every write *)
(* of a callback may fail: an INSERT that fails leaves no row.             *)

\* db.run(sql, params, (err) => { if (err) console.error(...) }): the rows
\* of a failed INSERT are not there, and the error is logged
Logged(err, before, after) == IF err THEN before ELSE after

\* db.run(insertSql, [...]) of aggregateData has no callback: sqlite3 emits
\* the error of the INSERT as 'error' on the statement, which has no
\* listener, so the error is thrown out of the callback and nothing catches it
Unhandled(err, before, after) == err /\ after # before

\* the seconds at which the storage fails, if it does: the first tick of
\* collectTelemetry, the hour of cron and the first aggregation
OutageSeconds == {StartSecond + CollectSeconds, 3600, StartSecond + InitialSeconds}

\* the errors a write can end with at second t
Errors(t) == IF t \in OutageSeconds THEN BOOLEAN ELSE {FALSE}

\* the telemetry of v1 the broker delivers, in this order: the first one
\* breaches the threshold of the engine temperature
FailDeliveries ==
  <<[topic |-> <<"ferry", "vessel", "v1", "telemetry">>, payload |-> HotEngine],
    [topic |-> <<"ferry", "vessel", "v1", "telemetry">>, payload |-> Limits]>>

\* wss.on('connection'): one dashboard, in the first second
FailConnection ==
  /\ ~transport.crashed
  /\ DOMAIN readyState = {}
  /\ now = StartSecond
  /\ Connection

\* client.on('message') of the MQTT client; err is the error of the INSERTs
\* of saveEvent
FailMqttMessage ==
  \E err \in Errors(now) :
    /\ ~transport.crashed
    /\ Len(applied) < Len(FailDeliveries)
    /\ LET d == FailDeliveries[Len(applied) + 1]
           handled == OnMqttMessage(Ops, d.topic, d.payload, now)
       IN /\ err => handled.vesselEvents # vesselEvents
          /\ Store([handled EXCEPT !.vesselEvents = Logged(err, vesselEvents, @)])
    /\ UNCHANGED <<now, registeredAt, requests, lastPrune, telemetry, aggregates,
                   sqliteSequence, ran, reply, transport>>

\* setInterval(() => this.collectTelemetry(), 5000); err is the error of the
\* INSERTs of saveTelemetry
FailCollectTick ==
  \E err \in Errors(now) :
    /\ ~transport.crashed
    /\ Pending("collect")
    /\ StoreDb(Logged(err, Db, collectTelemetry(Db, fleet, now)))
    /\ Ran("collect")
    /\ UNCHANGED <<fleet, alerts, systemStatus, weatherData, now, applied, emitted,
                   lastUpdateSent, hub, lastPrune, reply, transport>>

\* the callback of a task that aggregates; err is the error of its INSERTs
FailAggregation(task, aggregated, err) ==
  /\ ~transport.crashed
  /\ Pending(task)
  /\ StoreDb(Logged(err, Db, aggregated))
  /\ transport' = [transport EXCEPT !.crashed = Unhandled(err, Db, aggregated)]
  /\ Ran(task)
  /\ UNCHANGED <<fleet, alerts, systemStatus, weatherData, now, applied, emitted,
                 lastUpdateSent, hub, lastPrune, reply>>

\* cron '*/5 * * * *'
FailAggregate5Min ==
  \E err \in Errors(now) : FailAggregation("5min", aggregateData(Db, "5min", now), err)

\* cron '0 * * * *' of the data collector
FailAggregateHour ==
  \E err \in Errors(now) : FailAggregation("hour", aggregateData(Db, "hour", now), err)

\* setTimeout(..., 60000): the initial aggregation
FailInitialAggregation ==
  \E err \in Errors(now) :
    FailAggregation("initial",
                    aggregateData(aggregateData(Db, "5min", now), "hour", now), err)

FailClock == ~transport.crashed /\ CollectClock

FailNext ==
  \/ FailConnection \/ FailMqttMessage \/ FailCollectTick \/ FailAggregate5Min
  \/ FailAggregateHour \/ FailInitialAggregation \/ FailClock

FailSpec == CollectInit /\ [][FailNext]_vars

----------------------------------------------------------------------------
(* Storage failures *)

\* the state the dashboards are shown: the fleet map, the alert log with its
\* counts, and what has been sent to them
LiveState(st) == <<st.fleet, st.alerts, st.systemStatus, st.sent>>

\* the step leaves the live state as the same step does when every write
\* succeeds: a message is applied as OnMqttMessage applies it, and a
\* callback of the data collector changes nothing of it
AsIfWritten ==
  IF Len(applied') # Len(applied)
    THEN LET d == FailDeliveries[Len(applied) + 1]
         IN LiveState(Ops)' = LiveState(OnMqttMessage(Ops, d.topic, d.payload, now))
    ELSE ran' # ran => UNCHANGED <<fleet, alerts, systemStatus, sent>>

\* C31: whether its writes fail or not, a step leaves the fleet map, the
\* alert log and the broadcasts as they are when the writes succeed, and the
\* process keeps running
C31_FailureOnlyLosesTheWrite ==
  [][AsIfWritten /\ ~transport'.crashed]_vars

\* the failures of saveTelemetry and saveEvent, which are logged, leave the
\* live state as it is when the writes succeed
LoggedFailureKeepsLiveState == [][AsIfWritten]_vars

\* the process ends in the callbacks that aggregate only
EndsInAggregationOnly ==
  [][transport'.crashed =>
       \E task \in {"5min", "hour", "initial"} :
         Pending(task) /\ task \in DOMAIN ran' /\ ran'[task] = now]_vars

\* the sample of second StartSecond + 5 was lost, the alert of the first
\* message was not recorded, and the sample of the next tick is stored
IngestedAfterFailure ==
  /\ alerts # <<>>
  /\ vesselEvents = <<>>
  /\ \E i \in 1..Len(telemetry) : telemetry[i].timestamp = StartSecond + 2 * CollectSeconds
  /\ \A i \in 1..Len(telemetry) : telemetry[i].timestamp # StartSecond + CollectSeconds

====
